---------------------------- MODULE Spec2Model ----------------------------
(***************************************************************************)
(* Pet progression, quest lifecycle and wellness activities of the Heron   *)
(* Wellnest activities API (PetsService, FoodService, QuestsService, the   *)
(* gratitude jar, journal, mood check-in and flip-and-feel services and    *)
(* their repositories).                                                    *)
(*                                                                         *)
(* Every service method is an async function: it runs synchronously up to  *)
(* each `await` of a repository call and resumes afterwards.  A request is *)
(* therefore a little process whose position (pc) is the repository call   *)
(* it is about to make; one action of the model is one repository call     *)
(* together with the synchronous code that follows it up to the next call. *)
(* Requests of a sequential specification run one at a time, requests of   *)
(* a concurrent specification interleave at these points.                  *)
(***************************************************************************)
EXTENDS Integers, Sequences, FiniteSets, TLC

VARIABLES
  now,          \* the server clock, in milliseconds (Date.now())
  pets,         \* table pets: sequence of rows, pet_id = index
  inventory,    \* table food_inventory: set of rows
  nextInvId,    \* generator of inventory_id
  dailyQuests,  \* table daily_quests: sequence of rows, daily_quest_id = index
  userQuests,   \* table user_quests: sequence of rows, user_quest_id = index
  reqs,         \* the requests in flight: slot -> request record
  ops,          \* number of requests started so far
  lastOk,       \* history: user quest of the immediately preceding successful claim (0: none)
  credited,     \* history: user_quest_id -> number of pet credits written by claimQuest
  gratitude,    \* table gratitude_entries: sequence of rows
  journal,      \* table journal_entries: sequence of rows
  checkIns,     \* table mood_check_ins: sequence of rows
  flipFeel,     \* table flip_feel (sessions): sequence of rows
  flipFeelResponses, \* table flip_feel_responses: sequence of rows
  calls,        \* the activity requests in flight: slot -> call record
  pager         \* a client paging through its gratitude entries

\* the tables and requests of the activities (gratitude jar, journal, mood
\* check-in, flip and feel); the pet, food and quest services never touch them
activities == <<gratitude, journal, checkIns, flipFeel, flipFeelResponses,
                calls, pager>>

vars == <<now, pets, inventory, nextInvId, dailyQuests, userQuests, reqs, ops,
          lastOk, credited, activities>>

---------------------------------------------------------------------------
(* Bounds of the model *)

MaxOps == 3          \* requests started in one run of a sequential specification
MaxConcOps == 2      \* requests started in one run of a concurrent specification
MaxTicks == 2        \* clock advances in one run

---------------------------------------------------------------------------
(* Program constants *)

COIN_LIMIT == 9999
ENERGY_LIMIT == 100
HUNGER_LIMIT == 100
CLEANLINESS_LIMIT == 100
HAPPINESS_LIMIT == 100
MAX_LEVEL == 50
BASE_EXP_PER_LEVEL == 100

MsPerHour == 60 * 60 * 1000
MsPerDay == 24 * MsPerHour

\* null of a Date column, of a numeric id, of a uuid string
NoTime == 0 - 1
NoId == 0
NoRef == ""

Min(a, b) == IF a <= b THEN a ELSE b
Max(a, b) == IF a >= b THEN a ELSE b

---------------------------------------------------------------------------
(* Leveling: PetsService.calculateRequiredXP / calculateLevelFromXP *)

RECURSIVE calculateRequiredXP(_)
calculateRequiredXP(level) ==
  IF level <= 1 THEN 0
  ELSE calculateRequiredXP(level - 1)
         + ((BASE_EXP_PER_LEVEL * (level - 1) * 3) \div 2)

RECURSIVE LevelLoop(_, _, _)
LevelLoop(i, level, experience) ==
  IF i > MAX_LEVEL THEN level
  ELSE IF experience >= calculateRequiredXP(i)
       THEN LevelLoop(i + 1, i, experience)
       ELSE level

AgeStageOf(level) ==
  IF level <= 15 THEN "infant"
  ELSE IF level <= 35 THEN "teen"
  ELSE "adult"

\* variant: a level is reached only above its requirement
calculateLevelFromXPAbove(experience) ==
  LET level == LevelLoop(2, 1, experience - 1)
  IN [level |-> level, age_stage |-> AgeStageOf(level)]

calculateLevelFromXP(experience) ==
  LET level == LevelLoop(2, 1, experience)
  IN [level |-> level, age_stage |-> AgeStageOf(level)]

\* the experience at which level L is reached: sum of floor(100 * i * 1.5)
\* for i = 1 .. L-1, which is 150 * (1 + ... + (L-1))
RequirementOf(L) == 75 * L * (L - 1)

---------------------------------------------------------------------------
(* The catalogs the quest and food operations read.  They are stored rows  *)
(* that no operation of these services changes.                            *)

Owners == {"u1", "u2"}

\* pet_food rows by food_id; "fx" is a food id no row has
Foods == {"f1", "f2"}
FoodIds == Foods \cup {"fx"}
PetFood(f) ==
  IF f = "f1" THEN [food_price |-> 10, hunger_fill_amount |-> 20, xp_gain |-> 60]
  ELSE [food_price |-> 3, hunger_fill_amount |-> 5, xp_gain |-> 10]

\* quest_definitions rows by quest_definition_id.  hunger_recovery is a
\* nullable column: null adds 0 in `pet.pet_hunger + questDef.hunger_recovery`
QuestDefinition(q) ==
  IF q = "qCoins"
  THEN [reward_money |-> 10, reward_experience |-> 50, hunger_recovery |-> 5,
        reward_type |-> "coins", reward_food_id |-> NoRef]
  ELSE IF q = "qFood"
  THEN [reward_money |-> 5, reward_experience |-> 10, hunger_recovery |-> 0,
        reward_type |-> "food", reward_food_id |-> "f1"]
  ELSE [reward_money |-> 1, reward_experience |-> 10, hunger_recovery |-> 5,
        reward_type |-> "food", reward_food_id |-> "fx"]


---------------------------------------------------------------------------
(* Rows *)

\* A row of table pets as PetsRepository.createPet stores it: every column
\* the caller does not give takes its @Column default.
NewPet(id, owner) ==
  [pet_id |-> id, owner_id |-> owner, level |-> 1, experience |-> 0,
   age_stage |-> "infant", pet_mood |-> "excited", pet_coin |-> 500,
   pet_energy |-> 100, pet_hunger |-> 100, pet_cleanliness |-> 100,
   pet_happiness |-> 100, sleep_until |-> NoTime]

\* what findOne returns when no row matches, in the shape of each table
NullPet == [NewPet(NoId, NoRef) EXCEPT !.pet_coin = 0]
NullInventory ==
  [inventory_id |-> NoId, owner_id |-> NoRef, food_id |-> NoRef, quantity |-> 0]
NullUserQuest ==
  [user_quest_id |-> NoId, owner_id |-> NoRef, daily_quest_id |-> NoId,
   status |-> NoRef, expires_at |-> NoTime, created_at |-> NoTime]

SeqRange(s) == {s[i] : i \in DOMAIN s}

\* Date helpers of QuestsService: isToday and the end of the current day
isToday(date) == date \div MsPerDay = now \div MsPerDay
EndOfToday == (now \div MsPerDay) * MsPerDay + (MsPerDay - 1)

---------------------------------------------------------------------------
(* Repositories: reads as operators on the tables *)

getPetByOwnerId(owner) ==
  IF \E i \in DOMAIN pets : pets[i].owner_id = owner
  THEN pets[CHOOSE i \in DOMAIN pets :
              /\ pets[i].owner_id = owner
              /\ \A j \in DOMAIN pets : pets[j].owner_id = owner => i <= j]
  ELSE NullPet

getPetById(id) == IF id \in DOMAIN pets THEN pets[id] ELSE NullPet

\* Object.assign(pet, updates)
Assign(row, updates) ==
  [f \in DOMAIN row |-> IF f \in DOMAIN updates THEN updates[f] ELSE row[f]]

\* PetsRepository.updatePetStats: the table after the call (unchanged for an
\* unknown pet_id, where the call returns null).  The read and the save of
\* the repository method are taken as one statement on the row.
updatePetStats(id, updates) ==
  IF id \in DOMAIN pets
  THEN [pets EXCEPT ![id] = Assign(@, updates)]
  ELSE pets

getFoodById(f) == f \in Foods

getInventoryByOwnerAndFood(owner, f) ==
  IF \E row \in inventory : row.owner_id = owner /\ row.food_id = f
  THEN CHOOSE row \in inventory : row.owner_id = owner /\ row.food_id = f
  ELSE NullInventory

getInventoryById(id) ==
  IF \E row \in inventory : row.inventory_id = id
  THEN CHOOSE row \in inventory : row.inventory_id = id
  ELSE NullInventory

\* FoodInventoryRepository.updateQuantity: the table after the call
updateQuantity(id, quantity) ==
  {IF row.inventory_id = id THEN [row EXCEPT !.quantity = quantity] ELSE row :
     row \in inventory}

\* variant: the emptied row is kept, with quantity 0
deleteInventoryItemKept(id) ==
  {IF row.inventory_id = id THEN [row EXCEPT !.quantity = 0] ELSE row :
     row \in inventory}

\* FoodInventoryRepository.deleteInventoryItem: the table after the call
deleteInventoryItem(id) == {row \in inventory : row.inventory_id # id}

getUserQuestById(id) ==
  IF id \in DOMAIN userQuests THEN userQuests[id] ELSE NullUserQuest

\* UserQuestsRepository.getUserQuestsByOwnerId, as the ids in table order
RECURSIVE IdsWhere(_, _, _)
IdsWhere(table, i, owner) ==
  IF i > Len(table) THEN <<>>
  ELSE IF table[i].owner_id = owner
       THEN <<i>> \o IdsWhere(table, i + 1, owner)
       ELSE IdsWhere(table, i + 1, owner)

getUserQuestsByOwnerId(owner) == IdsWhere(userQuests, 1, owner)

---------------------------------------------------------------------------
(* Requests *)

Db == [pets |-> pets, inventory |-> inventory, userQuests |-> userQuests]

IdleReq ==
  [op |-> "none", owner |-> NoRef, food |-> NoRef, qty |-> 0, uq |-> NoId,
   pc |-> "idle", code |-> NoRef,
   pet |-> NullPet, read |-> NullPet, inv |-> NullInventory,
   quest |-> NullUserQuest, t |-> NoTime, minutes |-> 0, writes |-> 0,
   again |-> FALSE, list |-> <<>>, todo |-> <<>>, made |-> <<>>,
   stats |-> [total |-> 0, pending |-> 0, complete |-> 0, claimed |-> 0,
              expired |-> 0],
   prevOk |-> NoId, pre |-> [pets |-> <<>>, inventory |-> {}, userQuests |-> <<>>]]

Slots == 1 .. 2

Free(r) == reqs[r].pc \in {"idle", "done"}
Running(r) == ~Free(r)

\* a request enters service: the handler is called with its arguments
Begin(r, op, owner, food, qty, uq, pc) ==
  /\ Free(r)
  /\ reqs' = [reqs EXCEPT ![r] =
       [IdleReq EXCEPT !.op = op, !.owner = owner, !.food = food, !.qty = qty,
                       !.uq = uq, !.pc = pc, !.prevOk = lastOk, !.pre = Db]]
  /\ ops' = ops + 1
  /\ UNCHANGED activities
  /\ UNCHANGED <<now, pets, inventory, nextInvId, dailyQuests, userQuests,
                 lastOk, credited>>

\* the request record once the handler has returned or thrown `code`
Done(req, code) == [req EXCEPT !.pc = "done", !.code = code]

\* the history of successful claims after request req ended with `code`
LastOkAfter(req, code) ==
  IF req.op = "claimQuest" /\ code = "QUEST_CLAIMED" THEN req.uq ELSE NoId

---------------------------------------------------------------------------
(* PetsService: petThePet, sleepPet, wakePet, completeBathMinigame,        *)
(* completeBounceMinigame                                                  *)

PetOps == {"petThePet", "sleepPet", "wakePet", "completeBathMinigame",
           "completeBounceMinigame"}

\* variant: a pet that was never woken counts as asleep
SleepingUntilWoken(pet) == pet.sleep_until # NoTime

\* `pet.sleep_until !== null && now < pet.sleep_until.getTime()`
Sleeping(pet) == pet.sleep_until # NoTime /\ now < pet.sleep_until

\* variant: wakePet does not look whether the pet was put to sleep
PetActionErrorWakeAnytime(op, pet) ==
  CASE op = "petThePet" ->
         IF Sleeping(pet) THEN "PET_SLEEPING" ELSE NoRef
    [] op = "sleepPet" ->
         IF Sleeping(pet) THEN "PET_ALREADY_SLEEPING" ELSE NoRef
    [] op = "wakePet" ->
         IF now < pet.sleep_until THEN "SLEEP_NOT_COMPLETED" ELSE NoRef
    [] op = "completeBathMinigame" ->
         IF Sleeping(pet) THEN "PET_SLEEPING"
         ELSE IF pet.pet_energy < 10 THEN "INSUFFICIENT_ENERGY"
         ELSE NoRef
    [] op = "completeBounceMinigame" ->
         IF Sleeping(pet) THEN "PET_SLEEPING"
         ELSE IF pet.pet_energy < 15 THEN "INSUFFICIENT_ENERGY"
         ELSE NoRef

\* variant: the minigames refuse a pet whose energy is just the amount they
\* take
PetActionErrorAtCost(op, pet) ==
  CASE op = "petThePet" ->
         IF Sleeping(pet) THEN "PET_SLEEPING" ELSE NoRef
    [] op = "sleepPet" ->
         IF Sleeping(pet) THEN "PET_ALREADY_SLEEPING" ELSE NoRef
    [] op = "wakePet" ->
         IF pet.sleep_until = NoTime THEN "PET_NOT_SLEEPING"
         ELSE IF now < pet.sleep_until THEN "SLEEP_NOT_COMPLETED"
         ELSE NoRef
    [] op = "completeBathMinigame" ->
         IF Sleeping(pet) THEN "PET_SLEEPING"
         ELSE IF pet.pet_energy <= 10 THEN "INSUFFICIENT_ENERGY"
         ELSE NoRef
    [] op = "completeBounceMinigame" ->
         IF Sleeping(pet) THEN "PET_SLEEPING"
         ELSE IF pet.pet_energy <= 15 THEN "INSUFFICIENT_ENERGY"
         ELSE NoRef

\* the AppError a pet action throws on the pet it has read ("" : none)
PetActionError(op, pet) ==
  CASE op = "petThePet" ->
         IF Sleeping(pet) THEN "PET_SLEEPING" ELSE NoRef
    [] op = "sleepPet" ->
         IF Sleeping(pet) THEN "PET_ALREADY_SLEEPING" ELSE NoRef
    [] op = "wakePet" ->
         IF pet.sleep_until = NoTime THEN "PET_NOT_SLEEPING"
         ELSE IF now < pet.sleep_until THEN "SLEEP_NOT_COMPLETED"
         ELSE NoRef
    [] op = "completeBathMinigame" ->
         IF Sleeping(pet) THEN "PET_SLEEPING"
         ELSE IF pet.pet_energy < 10 THEN "INSUFFICIENT_ENERGY"
         ELSE NoRef
    [] op = "completeBounceMinigame" ->
         IF Sleeping(pet) THEN "PET_SLEEPING"
         ELSE IF pet.pet_energy < 15 THEN "INSUFFICIENT_ENERGY"
         ELSE NoRef

\* variant: petThePet computes its amounts from the row stored at the time
\* of the write instead of the row it read
PetActionUpdatesStored(op, pet, t) ==
  LET row == IF pet.pet_id \in DOMAIN pets THEN pets[pet.pet_id] ELSE pet
  IN CASE op = "petThePet" ->
            [pet_coin |-> Min(row.pet_coin + 1, COIN_LIMIT),
             pet_happiness |-> Min(row.pet_happiness + 1, HAPPINESS_LIMIT),
             pet_energy |-> Max(row.pet_energy - 1, 0)]
       [] op = "sleepPet" ->
            [sleep_until |-> t + MsPerHour, pet_mood |-> "sleepy"]
       [] op = "wakePet" ->
            [sleep_until |-> NoTime,
             pet_energy |-> ENERGY_LIMIT,
             pet_coin |-> Min(pet.pet_coin + 5, COIN_LIMIT),
             pet_hunger |-> Max(pet.pet_hunger - 20, 0),
             pet_mood |-> IF pet.pet_hunger <= 10 THEN "sad" ELSE "excited",
             pet_cleanliness |-> Max(pet.pet_cleanliness - 10, 0)]
       [] op = "completeBathMinigame" ->
            [pet_cleanliness |-> CLEANLINESS_LIMIT,
             pet_coin |-> Min(pet.pet_coin + 8, COIN_LIMIT),
             pet_energy |-> Max(pet.pet_energy - 10, 0)]
       [] op = "completeBounceMinigame" ->
            [pet_coin |-> Min(pet.pet_coin + 10, COIN_LIMIT),
             pet_happiness |-> Min(pet.pet_happiness + 15, HAPPINESS_LIMIT),
             pet_energy |-> Max(pet.pet_energy - 15, 0),
             pet_cleanliness |-> Max(pet.pet_cleanliness - 5, 0)]

\* the `updates` a pet action passes to updatePetStats; t is the `now` the
\* action read before the call
PetActionUpdates(op, pet, t) ==
  CASE op = "petThePet" ->
         [pet_coin |-> Min(pet.pet_coin + 1, COIN_LIMIT),
          pet_happiness |-> Min(pet.pet_happiness + 1, HAPPINESS_LIMIT),
          pet_energy |-> Max(pet.pet_energy - 1, 0)]
    [] op = "sleepPet" ->
         [sleep_until |-> t + MsPerHour, pet_mood |-> "sleepy"]
    [] op = "wakePet" ->
         [sleep_until |-> NoTime,
          pet_energy |-> ENERGY_LIMIT,
          pet_coin |-> Min(pet.pet_coin + 5, COIN_LIMIT),
          pet_hunger |-> Max(pet.pet_hunger - 20, 0),
          pet_mood |-> IF pet.pet_hunger <= 10 THEN "sad" ELSE "excited",
          pet_cleanliness |-> Max(pet.pet_cleanliness - 10, 0)]
    [] op = "completeBathMinigame" ->
         [pet_cleanliness |-> CLEANLINESS_LIMIT,
          pet_coin |-> Min(pet.pet_coin + 8, COIN_LIMIT),
          pet_energy |-> Max(pet.pet_energy - 10, 0)]
    [] op = "completeBounceMinigame" ->
         [pet_coin |-> Min(pet.pet_coin + 10, COIN_LIMIT),
          pet_happiness |-> Min(pet.pet_happiness + 15, HAPPINESS_LIMIT),
          pet_energy |-> Max(pet.pet_energy - 15, 0),
          pet_cleanliness |-> Max(pet.pet_cleanliness - 5, 0)]

\* variant: the remaining minutes rounded down
RemainingMinutesFloor(pet) == (pet.sleep_until - now) \div (1000 * 60)

\* wakePet's `Math.ceil((pet.sleep_until.getTime() - now.getTime()) / 1000 / 60)`
\* for a pet still asleep
RemainingMinutes(pet) ==
  ((pet.sleep_until - now) + (1000 * 60 - 1)) \div (1000 * 60)

\* the request after the action has its pet: it throws, or goes on to write
AfterPetRead(req, pet) ==
  IF PetActionError(req.op, pet) # NoRef
  THEN [Done(req, PetActionError(req.op, pet)) EXCEPT
          !.minutes = IF PetActionError(req.op, pet) = "SLEEP_NOT_COMPLETED"
                      THEN RemainingMinutes(pet) ELSE 0]
  ELSE [req EXCEPT !.pc = "updatePet", !.pet = pet, !.read = pet, !.t = now]

StartPetAction(r, op, owner) ==
  /\ op \in PetOps
  /\ Begin(r, op, owner, NoRef, 0, NoId, "getPet")

\* PetsService.getPetByOwnerId, the read: the owner's pet, or none yet
PetActionGetPet(r) ==
  LET req == reqs[r]
      pet == getPetByOwnerId(req.owner)
  IN /\ req.pc = "getPet"
     /\ req.op \in PetOps
     /\ reqs' = [reqs EXCEPT ![r] =
          IF pet.pet_id = NoId THEN [req EXCEPT !.pc = "createPet"]
          ELSE AfterPetRead(req, pet)]
     /\ lastOk' = IF pet.pet_id # NoId /\ PetActionError(req.op, pet) # NoRef
                  THEN NoId ELSE lastOk
     /\ UNCHANGED activities
     /\ UNCHANGED <<now, pets, inventory, nextInvId, dailyQuests, userQuests,
                    ops, credited>>

\* PetsService.getPetByOwnerId, the lazy creation of "Heron".  owner_id is
\* a unique column: the insert of a second pet for the owner is rejected.
PetActionCreatePet(r) ==
  LET req == reqs[r]
      pet == NewPet(Len(pets) + 1, req.owner)
  IN /\ req.pc = "createPet"
     /\ IF getPetByOwnerId(req.owner).pet_id # NoId
        THEN /\ reqs' = [reqs EXCEPT ![r] = Done(req, "INTERNAL_SERVER_ERROR")]
             /\ lastOk' = NoId
             /\ UNCHANGED pets
        ELSE /\ pets' = Append(pets, pet)
             /\ reqs' = [reqs EXCEPT ![r] = AfterPetRead(req, pet)]
             /\ lastOk' = IF PetActionError(req.op, pet) # NoRef
                          THEN NoId ELSE lastOk
     /\ UNCHANGED activities
     /\ UNCHANGED <<now, inventory, nextInvId, dailyQuests, userQuests, ops,
                    credited>>

\* the updatePetStats call of a pet action and its return
PetActionUpdate(r) ==
  LET req == reqs[r]
  IN /\ req.pc = "updatePet"
     /\ req.op \in PetOps
     /\ pets' = updatePetStats(req.pet.pet_id,
                               PetActionUpdates(req.op, req.pet, req.t))
     /\ reqs' = [reqs EXCEPT ![r] =
          IF req.pet.pet_id \in DOMAIN pets
          THEN [Done(req, "OK") EXCEPT !.pet = pets'[req.pet.pet_id]]
          ELSE Done(req, "UPDATE_FAILED")]
     /\ lastOk' = NoId
     /\ UNCHANGED activities
     /\ UNCHANGED <<now, inventory, nextInvId, dailyQuests, userQuests, ops,
                    credited>>

---------------------------------------------------------------------------
(* Adding food to an inventory: the tail shared by FoodService.buyFood and *)
(* QuestsService.claimQuest.  `inv` is the row the caller read before (or  *)
(* none); the result is the table, the id generator and the error thrown.  *)
(* (owner_id, food_id) is a unique key of food_inventory.                  *)

\* variant: an existing row is saved with the quantity it had
AddFoodSameQuantity(owner, f, inv, n) ==
  IF inv.inventory_id # NoId
  THEN IF getInventoryById(inv.inventory_id).inventory_id = NoId
       THEN [code |-> "UPDATE_FAILED", table |-> inventory, next |-> nextInvId]
       ELSE [code |-> NoRef,
             table |-> updateQuantity(inv.inventory_id, inv.quantity),
             next |-> nextInvId]
  ELSE IF getInventoryByOwnerAndFood(owner, f).inventory_id # NoId
       THEN [code |-> "INTERNAL_SERVER_ERROR", table |-> inventory,
             next |-> nextInvId]
       ELSE [code |-> NoRef,
             table |-> inventory \cup
                         {[inventory_id |-> nextInvId, owner_id |-> owner,
                           food_id |-> f, quantity |-> n]},
             next |-> nextInvId + 1]

AddFood(owner, f, inv, n) ==
  IF inv.inventory_id # NoId
  THEN IF getInventoryById(inv.inventory_id).inventory_id = NoId
       THEN [code |-> "UPDATE_FAILED", table |-> inventory, next |-> nextInvId]
       ELSE [code |-> NoRef,
             table |-> updateQuantity(inv.inventory_id, inv.quantity + n),
             next |-> nextInvId]
  ELSE IF getInventoryByOwnerAndFood(owner, f).inventory_id # NoId
       THEN [code |-> "INTERNAL_SERVER_ERROR", table |-> inventory,
             next |-> nextInvId]
       ELSE [code |-> NoRef,
             table |-> inventory \cup
                         {[inventory_id |-> nextInvId, owner_id |-> owner,
                           food_id |-> f, quantity |-> n]},
             next |-> nextInvId + 1]

---------------------------------------------------------------------------
(* FoodService.buyFood *)

StartBuyFood(r, owner, f, quantity) ==
  Begin(r, "buyFood", owner, f, quantity, NoId, "buyGetPet")

\* validation, the food, the pet and the price check
BuyFoodError(req, pet) ==
  IF req.qty <= 0 THEN "INVALID_QUANTITY"
  ELSE IF ~getFoodById(req.food) THEN "FOOD_NOT_FOUND"
  ELSE IF pet.pet_id = NoId THEN "PET_NOT_FOUND"
  ELSE IF pet.pet_coin < PetFood(req.food).food_price * req.qty
       THEN "INSUFFICIENT_COINS"
  ELSE NoRef

BuyFoodGetPet(r) ==
  LET req == reqs[r]
      pet == getPetByOwnerId(req.owner)
      err == BuyFoodError(req, pet)
  IN /\ req.pc = "buyGetPet"
     /\ reqs' = [reqs EXCEPT ![r] =
          IF err # NoRef THEN Done(req, err)
          ELSE [req EXCEPT !.pc = "buyUpdatePet", !.pet = pet]]
     /\ lastOk' = IF err # NoRef THEN NoId ELSE lastOk
     /\ UNCHANGED activities
     /\ UNCHANGED <<now, pets, inventory, nextInvId, dailyQuests, userQuests,
                    ops, credited>>

\* the price of one unit, whatever the quantity
BuyFoodUpdatesUnitPrice(req) ==
  [pet_coin |-> req.pet.pet_coin - PetFood(req.food).food_price]

BuyFoodUpdates(req) ==
  [pet_coin |-> req.pet.pet_coin - PetFood(req.food).food_price * req.qty]

BuyFoodUpdatePet(r) ==
  LET req == reqs[r]
  IN /\ req.pc = "buyUpdatePet"
     /\ pets' = updatePetStats(req.pet.pet_id, BuyFoodUpdates(req))
     /\ reqs' = [reqs EXCEPT ![r] =
          IF req.pet.pet_id \in DOMAIN pets
          THEN [req EXCEPT !.pc = "buyGetInventory",
                           !.pet = pets'[req.pet.pet_id]]
          ELSE Done(req, "UPDATE_FAILED")]
     /\ lastOk' = IF req.pet.pet_id \in DOMAIN pets THEN lastOk ELSE NoId
     /\ UNCHANGED activities
     /\ UNCHANGED <<now, inventory, nextInvId, dailyQuests, userQuests, ops,
                    credited>>

BuyFoodGetInventory(r) ==
  LET req == reqs[r]
  IN /\ req.pc = "buyGetInventory"
     /\ reqs' = [reqs EXCEPT ![r] =
          [req EXCEPT !.pc = "buyAddFood",
                      !.inv = getInventoryByOwnerAndFood(req.owner, req.food)]]
     /\ UNCHANGED activities
     /\ UNCHANGED <<now, pets, inventory, nextInvId, dailyQuests, userQuests,
                    ops, lastOk, credited>>

BuyFoodAddFood(r) ==
  LET req == reqs[r]
      res == AddFood(req.owner, req.food, req.inv, req.qty)
  IN /\ req.pc = "buyAddFood"
     /\ inventory' = res.table
     /\ nextInvId' = res.next
     /\ reqs' = [reqs EXCEPT ![r] =
          IF res.code # NoRef THEN Done(req, res.code)
          ELSE [Done(req, "OK") EXCEPT
                  !.inv = CHOOSE row \in res.table :
                            row.owner_id = req.owner /\ row.food_id = req.food]]
     /\ lastOk' = NoId
     /\ UNCHANGED activities
     /\ UNCHANGED <<now, pets, dailyQuests, userQuests, ops, credited>>

---------------------------------------------------------------------------
(* FoodService.feedPet, with PetsService.updatePetLevel *)

StartFeedPet(r, owner, f) ==
  Begin(r, "feedPet", owner, f, 0, NoId, "feedGetPet")

\* variant: the food is looked up before the pet's sleep is checked
FeedPetErrorFoodFirst(req, pet) ==
  IF pet.pet_id = NoId THEN "PET_NOT_FOUND"
  ELSE IF ~getFoodById(req.food) THEN "FOOD_NOT_FOUND"
  ELSE IF Sleeping(pet) THEN "PET_SLEEPING"
  ELSE NoRef

FeedPetError(req, pet) ==
  IF pet.pet_id = NoId THEN "PET_NOT_FOUND"
  ELSE IF Sleeping(pet) THEN "PET_SLEEPING"
  ELSE IF ~getFoodById(req.food) THEN "FOOD_NOT_FOUND"
  ELSE NoRef

FeedPetGetPet(r) ==
  LET req == reqs[r]
      pet == getPetByOwnerId(req.owner)
      err == FeedPetError(req, pet)
  IN /\ req.pc = "feedGetPet"
     /\ reqs' = [reqs EXCEPT ![r] =
          IF err # NoRef THEN Done(req, err)
          ELSE [req EXCEPT !.pc = "feedGetInventory", !.pet = pet,
                           !.read = pet]]
     /\ lastOk' = IF err # NoRef THEN NoId ELSE lastOk
     /\ UNCHANGED activities
     /\ UNCHANGED <<now, pets, inventory, nextInvId, dailyQuests, userQuests,
                    ops, credited>>

FeedPetGetInventory(r) ==
  LET req == reqs[r]
      inv == getInventoryByOwnerAndFood(req.owner, req.food)
      err == IF inv.inventory_id = NoId THEN "FOOD_NOT_IN_INVENTORY"
             ELSE IF inv.quantity <= 0 THEN "INSUFFICIENT_QUANTITY"
             ELSE NoRef
  IN /\ req.pc = "feedGetInventory"
     /\ reqs' = [reqs EXCEPT ![r] =
          IF err # NoRef THEN Done(req, err)
          ELSE [req EXCEPT !.pc = "feedUpdatePet", !.inv = inv]]
     /\ lastOk' = IF err # NoRef THEN NoId ELSE lastOk
     /\ UNCHANGED activities
     /\ UNCHANGED <<now, pets, inventory, nextInvId, dailyQuests, userQuests,
                    ops, credited>>

\* variant: the hunger written without the cap
FeedPetUpdatesUncapped(req) ==
  [pet_hunger |-> req.pet.pet_hunger + PetFood(req.food).hunger_fill_amount,
   experience |-> req.pet.experience + PetFood(req.food).xp_gain,
   pet_coin |-> Min(req.pet.pet_coin + 2, COIN_LIMIT)]

FeedPetUpdates(req) ==
  [pet_hunger |-> Min(req.pet.pet_hunger + PetFood(req.food).hunger_fill_amount,
                      HUNGER_LIMIT),
   experience |-> req.pet.experience + PetFood(req.food).xp_gain,
   pet_coin |-> Min(req.pet.pet_coin + 2, COIN_LIMIT)]

FeedPetUpdatePet(r) ==
  LET req == reqs[r]
  IN /\ req.pc = "feedUpdatePet"
     /\ pets' = updatePetStats(req.pet.pet_id, FeedPetUpdates(req))
     /\ reqs' = [reqs EXCEPT ![r] =
          IF req.pet.pet_id \in DOMAIN pets
          THEN [req EXCEPT !.pc = "feedUpdateLevel",
                           !.pet = pets'[req.pet.pet_id]]
          ELSE Done(req, "UPDATE_FAILED")]
     /\ lastOk' = IF req.pet.pet_id \in DOMAIN pets THEN lastOk ELSE NoId
     /\ UNCHANGED activities
     /\ UNCHANGED <<now, inventory, nextInvId, dailyQuests, userQuests, ops,
                    credited>>

\* variant: the level is left as it is
updatePetLevelNever(pet) == <<>>

\* variant: the level is written whether or not it changed
updatePetLevelAlways(pet) ==
  LET calc == calculateLevelFromXP(pet.experience)
  IN [level |-> calc.level, age_stage |-> calc.age_stage]

\* PetsService.updatePetLevel(pet): the updates it writes, none (an empty
\* record) when level and age_stage of `pet` already fit its experience
updatePetLevel(pet) ==
  LET calc == calculateLevelFromXP(pet.experience)
  IN IF calc.level = pet.level /\ calc.age_stage = pet.age_stage
     THEN <<>>
     ELSE [level |-> calc.level, age_stage |-> calc.age_stage]

FeedPetUpdateLevel(r) ==
  LET req == reqs[r]
      updates == updatePetLevel(req.pet)
  IN /\ req.pc = "feedUpdateLevel"
     /\ pets' = IF DOMAIN updates = {} THEN pets
                ELSE updatePetStats(req.pet.pet_id, updates)
     /\ reqs' = [reqs EXCEPT ![r] =
          [req EXCEPT !.pc = "feedUseFood",
                      !.pet = IF DOMAIN updates = {} THEN req.pet
                              ELSE pets'[req.pet.pet_id]]]
     /\ UNCHANGED activities
     /\ UNCHANGED <<now, inventory, nextInvId, dailyQuests, userQuests, ops,
                    lastOk, credited>>

\* the decrement of the inventory row read before, or its deletion at zero
FeedPetUseFood(r) ==
  LET req == reqs[r]
      newQuantity == req.inv.quantity - 1
  IN /\ req.pc = "feedUseFood"
     /\ inventory' = IF newQuantity > 0
                     THEN updateQuantity(req.inv.inventory_id, newQuantity)
                     ELSE deleteInventoryItem(req.inv.inventory_id)
     /\ reqs' = [reqs EXCEPT ![r] = Done(req, "OK")]
     /\ lastOk' = NoId
     /\ UNCHANGED activities
     /\ UNCHANGED <<now, pets, nextInvId, dailyQuests, userQuests, ops,
                    credited>>

---------------------------------------------------------------------------
(* QuestsService.claimQuest *)

\* the quest definition a user quest row resolves to through its relations
\* daily_quest_id.quest_definition_id
QuestDefOf(quest) ==
  QuestDefinition(dailyQuests[quest.daily_quest_id].quest_definition_id)

Credit(id) == IF id \in DOMAIN credited THEN credited[id] ELSE 0

StartClaimQuest(r, owner, id) ==
  Begin(r, "claimQuest", owner, NoRef, 0, id, "claimGetQuest")

\* variant: no ownership check
ClaimQuestErrorAnyOwner(owner, quest) ==
  IF quest.user_quest_id = NoId THEN "QUEST_NOT_FOUND"
  ELSE IF quest.status = "claimed" THEN "QUEST_ALREADY_CLAIMED"
  ELSE IF quest.status = "expired" THEN "QUEST_EXPIRED"
  ELSE IF quest.status # "complete" THEN "QUEST_NOT_COMPLETE"
  ELSE NoRef

\* variant: the status checks made before the ownership check
ClaimQuestErrorStatusFirst(owner, quest) ==
  IF quest.user_quest_id = NoId THEN "QUEST_NOT_FOUND"
  ELSE IF quest.status = "claimed" THEN "QUEST_ALREADY_CLAIMED"
  ELSE IF quest.status = "expired" THEN "QUEST_EXPIRED"
  ELSE IF quest.owner_id # owner THEN "QUEST_NOT_OWNED"
  ELSE IF quest.status # "complete" THEN "QUEST_NOT_COMPLETE"
  ELSE NoRef

\* the checks on the user quest read
ClaimQuestError(owner, quest) ==
  IF quest.user_quest_id = NoId THEN "QUEST_NOT_FOUND"
  ELSE IF quest.owner_id # owner THEN "QUEST_NOT_OWNED"
  ELSE IF quest.status = "claimed" THEN "QUEST_ALREADY_CLAIMED"
  ELSE IF quest.status = "expired" THEN "QUEST_EXPIRED"
  ELSE IF quest.status # "complete" THEN "QUEST_NOT_COMPLETE"
  ELSE NoRef

ClaimQuestGetQuest(r) ==
  LET req == reqs[r]
      quest == getUserQuestById(req.uq)
      err == ClaimQuestError(req.owner, quest)
  IN /\ req.pc = "claimGetQuest"
     /\ reqs' = [reqs EXCEPT ![r] =
          IF err # NoRef THEN Done(req, err)
          ELSE [req EXCEPT !.pc = "claimGetPet", !.quest = quest]]
     /\ lastOk' = IF err # NoRef THEN NoId ELSE lastOk
     /\ UNCHANGED activities
     /\ UNCHANGED <<now, pets, inventory, nextInvId, dailyQuests, userQuests,
                    ops, credited>>

ClaimQuestGetPet(r) ==
  LET req == reqs[r]
      pet == getPetByOwnerId(req.owner)
  IN /\ req.pc = "claimGetPet"
     /\ reqs' = [reqs EXCEPT ![r] =
          IF pet.pet_id = NoId THEN Done(req, "PET_NOT_FOUND")
          ELSE [req EXCEPT !.pc = "claimUpdatePet", !.pet = pet,
                           !.read = pet]]
     /\ lastOk' = IF pet.pet_id = NoId THEN NoId ELSE lastOk
     /\ UNCHANGED activities
     /\ UNCHANGED <<now, pets, inventory, nextInvId, dailyQuests, userQuests,
                    ops, credited>>

\* variant: the credit written without the caps
ClaimQuestUpdatesUnclamped(pet, questDef) ==
  [pet_coin |-> pet.pet_coin + questDef.reward_money,
   experience |-> pet.experience + questDef.reward_experience,
   pet_hunger |-> pet.pet_hunger + questDef.hunger_recovery]

ClaimQuestUpdates(pet, questDef) ==
  [pet_coin |-> Min(pet.pet_coin + questDef.reward_money, COIN_LIMIT),
   experience |-> pet.experience + questDef.reward_experience,
   pet_hunger |-> Min(pet.pet_hunger + questDef.hunger_recovery, HUNGER_LIMIT)]

\* `questDef.reward_type === "food" && questDef.reward_food_id`
RewardsFood(questDef) ==
  questDef.reward_type = "food" /\ questDef.reward_food_id # NoRef

\* the credit of the pet; its result is not looked at
ClaimQuestUpdatePet(r) ==
  LET req == reqs[r]
      questDef == QuestDefOf(req.quest)
  IN /\ req.pc = "claimUpdatePet"
     /\ pets' = updatePetStats(req.pet.pet_id,
                               ClaimQuestUpdates(req.pet, questDef))
     /\ credited' = (req.uq :> (Credit(req.uq) + 1)) @@ credited
     /\ reqs' = [reqs EXCEPT ![r] =
          [req EXCEPT !.pc = IF RewardsFood(questDef) THEN "claimGetInventory"
                             ELSE "claimMark"]]
     /\ UNCHANGED activities
     /\ UNCHANGED <<now, inventory, nextInvId, dailyQuests, userQuests, ops,
                    lastOk>>

\* the reward food and the owner's inventory row of it
ClaimQuestGetInventory(r) ==
  LET req == reqs[r]
      f == QuestDefOf(req.quest).reward_food_id
  IN /\ req.pc = "claimGetInventory"
     /\ reqs' = [reqs EXCEPT ![r] =
          IF ~getFoodById(f) THEN Done(req, "FOOD_NOT_FOUND")
          ELSE [req EXCEPT !.pc = "claimAddFood", !.food = f,
                           !.inv = getInventoryByOwnerAndFood(req.owner, f)]]
     /\ lastOk' = IF ~getFoodById(f) THEN NoId ELSE lastOk
     /\ UNCHANGED activities
     /\ UNCHANGED <<now, pets, inventory, nextInvId, dailyQuests, userQuests,
                    ops, credited>>

ClaimQuestAddFood(r) ==
  LET req == reqs[r]
      res == AddFood(req.owner, req.food, req.inv, 1)
  IN /\ req.pc = "claimAddFood"
     /\ inventory' = res.table
     /\ nextInvId' = res.next
     /\ reqs' = [reqs EXCEPT ![r] =
          IF res.code # NoRef THEN Done(req, res.code)
          ELSE [req EXCEPT !.pc = "claimMark"]]
     /\ lastOk' = IF res.code # NoRef THEN NoId ELSE lastOk
     /\ UNCHANGED activities
     /\ UNCHANGED <<now, pets, dailyQuests, userQuests, ops, credited>>

\* variant: the status is assigned but the row is not saved
updateUserQuestStatusLost(id, status) == userQuests

\* UserQuestsRepository.updateUserQuestStatus: the table after the call
updateUserQuestStatus(id, status) ==
  IF id \in DOMAIN userQuests
  THEN [userQuests EXCEPT ![id].status = status]
  ELSE userQuests

\* the mark as claimed and the return
ClaimQuestMark(r) ==
  LET req == reqs[r]
      code == IF req.uq \in DOMAIN userQuests THEN "QUEST_CLAIMED"
              ELSE "QUEST_CLAIM_FAILED"
  IN /\ req.pc = "claimMark"
     /\ userQuests' = updateUserQuestStatus(req.uq, "claimed")
     /\ reqs' = [reqs EXCEPT ![r] =
          [Done(req, code) EXCEPT
             !.quest = IF req.uq \in DOMAIN userQuests THEN userQuests'[req.uq]
                       ELSE NullUserQuest]]
     /\ lastOk' = LastOkAfter(req, code)
     /\ UNCHANGED activities
     /\ UNCHANGED <<now, pets, inventory, nextInvId, dailyQuests, ops,
                    credited>>

---------------------------------------------------------------------------
(* QuestsService.getUserQuestsForTheDay and getQuestStats *)

QuestOps == {"getUserQuestsForTheDay", "getQuestStats"}

RECURSIVE SelectSeq2(_, _, _)
\* s.filter(Test) of a sequence of ids, Test given as the set of ids kept
SelectSeq2(s, i, keep) ==
  IF i > Len(s) THEN <<>>
  ELSE IF s[i] \in keep THEN <<s[i]>> \o SelectSeq2(s, i + 1, keep)
       ELSE SelectSeq2(s, i + 1, keep)

RECURSIVE Rows(_, _, _)
\* the rows of `table` with the ids `ids`, in that order
Rows(table, ids, i) ==
  IF i > Len(ids) THEN <<>> ELSE <<table[ids[i]]>> \o Rows(table, ids, i + 1)

AllIds(table) == [i \in 1 .. Len(table) |-> i]

\* DailyQuestsRepository.getGlobalDailyQuests / getDailyQuestsByTargetUserId,
\* each filtered to today's, as ids
todaysGlobalQuests ==
  SelectSeq2(AllIds(dailyQuests), 1,
             {i \in DOMAIN dailyQuests :
                dailyQuests[i].scope = "global" /\ isToday(dailyQuests[i].timestamp)})

todaysPersonalizedQuests(owner) ==
  SelectSeq2(AllIds(dailyQuests), 1,
             {i \in DOMAIN dailyQuests :
                /\ dailyQuests[i].target_user_id = owner
                /\ isToday(dailyQuests[i].timestamp)})

StartQuests(r, op, owner) ==
  /\ op \in QuestOps
  /\ Begin(r, op, owner, NoRef, 0, NoId, "questsGetUserQuests")

\* the owner's user quests, filtered to those created today
QuestsGetUserQuests(r) ==
  LET req == reqs[r]
      existing == getUserQuestsByOwnerId(req.owner)
      todays == SelectSeq2(existing, 1,
                  {i \in DOMAIN userQuests : isToday(userQuests[i].created_at)})
  IN /\ req.pc = "questsGetUserQuests"
     /\ reqs' = [reqs EXCEPT ![r] =
          [req EXCEPT !.pc = "questsGetGlobal",
                      !.list = Rows(userQuests, todays, 1)]]
     /\ UNCHANGED activities
     /\ UNCHANGED <<now, pets, inventory, nextInvId, dailyQuests, userQuests,
                    ops, lastOk, credited>>

\* getTodaysDailyQuests, first query
QuestsGetGlobal(r) ==
  LET req == reqs[r]
  IN /\ req.pc = "questsGetGlobal"
     /\ reqs' = [reqs EXCEPT ![r] =
          [req EXCEPT !.pc = "questsGetPersonalized",
                      !.todo = todaysGlobalQuests]]
     /\ UNCHANGED activities
     /\ UNCHANGED <<now, pets, inventory, nextInvId, dailyQuests, userQuests,
                    ops, lastOk, credited>>

\* counts by status of the user quests returned
StatsOf(list) ==
  LET Count(st) == Cardinality({i \in DOMAIN list : list[i].status = st})
  IN [total |-> Len(list), pending |-> Count("pending"),
      complete |-> Count("complete"), claimed |-> Count("claimed"),
      expired |-> Count("expired")]

\* the request when getUserQuestsForTheDay returns `list`
QuestsReturn(req, list) ==
  [Done(req, "OK") EXCEPT
     !.list = list,
     !.stats = IF req.op = "getQuestStats" THEN StatsOf(list) ELSE @]

\* getTodaysDailyQuests, second query, and the daily quests that lack a user
\* quest among those read at the start
QuestsGetPersonalized(r) ==
  LET req == reqs[r]
      todaysDailyQuests == req.todo \o todaysPersonalizedQuests(req.owner)
      existingDailyQuestIds == {req.list[i].daily_quest_id : i \in DOMAIN req.list}
      missing == SelectSeq2(todaysDailyQuests, 1,
                            SeqRange(todaysDailyQuests) \ existingDailyQuestIds)
  IN /\ req.pc = "questsGetPersonalized"
     /\ reqs' = [reqs EXCEPT ![r] =
          IF missing = <<>> THEN QuestsReturn(req, req.list)
          ELSE [req EXCEPT !.pc = "questsCreate", !.todo = missing,
                           !.t = EndOfToday]]
     /\ lastOk' = IF missing = <<>> THEN NoId ELSE lastOk
     /\ UNCHANGED activities
     /\ UNCHANGED <<now, pets, inventory, nextInvId, dailyQuests, userQuests,
                    ops, credited>>

\* UserQuestsRepository.createUserQuest: the row inserted
createUserQuest(owner, daily, expires_at, status) ==
  [user_quest_id |-> Len(userQuests) + 1, owner_id |-> owner,
   daily_quest_id |-> daily, status |-> status, expires_at |-> expires_at,
   created_at |-> now]

\* one turn of the loop over the missing daily quests
QuestsCreate(r) ==
  LET req == reqs[r]
      row == createUserQuest(req.owner, Head(req.todo), req.t, "pending")
  IN /\ req.pc = "questsCreate"
     /\ userQuests' = Append(userQuests, row)
     /\ reqs' = [reqs EXCEPT ![r] =
          [req EXCEPT !.todo = Tail(req.todo),
                      !.made = Append(req.made, row.user_quest_id),
                      !.t = EndOfToday,
                      !.pc = IF Tail(req.todo) = <<>> THEN "questsFetch"
                             ELSE "questsCreate"]]
     /\ UNCHANGED activities
     /\ UNCHANGED <<now, pets, inventory, nextInvId, dailyQuests, ops, lastOk,
                    credited>>

\* the created rows are read back and returned after the existing ones
QuestsFetch(r) ==
  LET req == reqs[r]
  IN /\ req.pc = "questsFetch"
     /\ reqs' = [reqs EXCEPT ![r] =
          QuestsReturn(req, req.list \o Rows(userQuests, req.made, 1))]
     /\ lastOk' = NoId
     /\ UNCHANGED activities
     /\ UNCHANGED <<now, pets, inventory, nextInvId, dailyQuests, userQuests,
                    ops, credited>>

---------------------------------------------------------------------------
(* The environment: the clock, and the worker that completes and expires   *)
(* user quests.  The worker is not part of this service.                   *)

HalfHour == MsPerHour \div 2
StartOfRun == MsPerDay + 23 * MsPerHour

\* a returned request's record describes the response just sent; it is
\* dropped at the next step of the environment
Delivered == [r \in Slots |-> IF reqs[r].pc = "done" THEN IdleReq ELSE reqs[r]]

Tick ==
  /\ now + HalfHour <= StartOfRun + MaxTicks * HalfHour
  /\ now' = now + HalfHour
  /\ reqs' = Delivered
  /\ UNCHANGED activities
  /\ UNCHANGED <<pets, inventory, nextInvId, dailyQuests, userQuests, ops,
                 lastOk, credited>>

WorkerComplete(id) ==
  /\ id \in DOMAIN userQuests
  /\ userQuests[id].status = "pending"
  /\ userQuests' = [userQuests EXCEPT ![id].status = "complete"]
  /\ reqs' = Delivered
  /\ lastOk' = NoId
  /\ UNCHANGED activities
  /\ UNCHANGED <<now, pets, inventory, nextInvId, dailyQuests, ops, credited>>

WorkerExpire(id) ==
  /\ id \in DOMAIN userQuests
  /\ userQuests[id].status \in {"pending", "complete"}
  /\ userQuests' = [userQuests EXCEPT ![id].status = "expired"]
  /\ reqs' = Delivered
  /\ lastOk' = NoId
  /\ UNCHANGED activities
  /\ UNCHANGED <<now, pets, inventory, nextInvId, dailyQuests, ops, credited>>

---------------------------------------------------------------------------
(* Initial states.  Every stored row is one the operations above (or, for  *)
(* the quest tables, the worker) can have produced:                        *)
(*  - pet_energy takes every value 0..100 (petThePet lowers it by 1),      *)
(*    pet_coin every value from 500 up (petThePet) and down to 0 (buyFood),*)
(*    pet_hunger and pet_cleanliness the multiples of 5 (wakePet, the      *)
(*    bounce minigame, the foods and quests of the catalogs), experience   *)
(*    the sums of the catalogs' xp amounts, with the level feedPet left;   *)
(*  - pet_happiness of a created pet is 100 and nothing lowers it.         *)

Today == MsPerDay + MsPerHour
Yesterday == MsPerHour

PetProfile(id, owner, coin, energy, hunger, cleanliness, experience, sleep_until) ==
  [NewPet(id, owner) EXCEPT
     !.pet_coin = coin, !.pet_energy = energy, !.pet_hunger = hunger,
     !.pet_cleanliness = cleanliness, !.experience = experience,
     !.level = calculateLevelFromXP(experience).level,
     !.age_stage = calculateLevelFromXP(experience).age_stage,
     !.sleep_until = sleep_until,
     !.pet_mood = IF sleep_until = NoTime THEN "excited" ELSE "sleepy"]

PetProfiles(id, owner) ==
  { NewPet(id, owner),
    PetProfile(id, owner, 9995, 15, 95, 5, 140, NoTime),
    PetProfile(id, owner, 3, 0, 10, 0, 0, NoTime),
    PetProfile(id, owner, 500, 100, 30, 100, 440, StartOfRun + HalfHour + 1),
    PetProfile(id, owner, 9999, 10, 0, 10, 80, StartOfRun - HalfHour) }

DailyQuest(scope, target, definition, timestamp) ==
  [scope |-> scope, target_user_id |-> target,
   quest_definition_id |-> definition, timestamp |-> timestamp]

\* today's quests for everyone, for u1 and for u2, and one of yesterday
DailyTable ==
  << DailyQuest("global", NoRef, "qCoins", Today),
     DailyQuest("personalized", "u1", "qFood", Today),
     DailyQuest("personalized", "u2", "qGhost", Today),
     DailyQuest("global", NoRef, "qCoins", Yesterday) >>

\* createDailyQuest(definition, "global", "u1"): a row both queries of
\* getTodaysDailyQuests return
DailyTableBoth ==
  << DailyQuest("global", "u1", "qCoins", Today),
     DailyQuest("global", NoRef, "qCoins", Yesterday) >>

UserQuest(id, owner, daily, status) ==
  [user_quest_id |-> id, owner_id |-> owner, daily_quest_id |-> daily,
   status |-> status, expires_at |-> 2 * MsPerDay - 1,
   created_at |-> Today + MsPerHour]

\* an activity request: its operation, user, entry id and body (input), the
\* repository call it is about to make (pc), what it read (found, count,
\* list), its outcome and the table when it began
IdleCall == [op |-> "", user |-> NoRef, id |-> NoId, input |-> <<>>,
             pc |-> "idle", found |-> FALSE, count |-> 0, list |-> {},
             code |-> "", pre |-> <<>>]

\* the client of getEntriesByUser: the user and limit of its run, the cursor
\* it holds, the pages it received so far and the entries on them
IdlePager == [state |-> "idle", user |-> NoRef, limit |-> 0, cursor |-> NoId,
              pages |-> <<>>, seen |-> <<>>]

NoActivities ==
  /\ gratitude = <<>>
  /\ journal = <<>>
  /\ checkIns = <<>>
  /\ flipFeel = <<>>
  /\ flipFeelResponses = <<>>
  /\ calls = [r \in Slots |-> IdleCall]
  /\ pager = IdlePager

InitRequests ==
  /\ reqs = [r \in Slots |-> IdleReq]
  /\ ops = 0
  /\ lastOk = NoId
  /\ credited = <<>>
  /\ now = StartOfRun
  /\ NoActivities

---------------------------------------------------------------------------
(* Spec: one owner's requests, served one after another.  The pet actions, *)
(* the food shop and the quest claims of owner u1 on one pet.              *)

AllFree == \A r \in Slots : Free(r)
CanStart == AllFree /\ ops < MaxOps

Init ==
  /\ InitRequests
  /\ pets \in {<<>>} \cup {<<p>> : p \in PetProfiles(1, "u1")}
  /\ inventory \in { {},
                     {[inventory_id |-> 1, owner_id |-> "u1", food_id |-> "f1",
                       quantity |-> 1]} }
  /\ nextInvId = 2
  /\ dailyQuests = DailyTable
  /\ userQuests = << UserQuest(1, "u1", 1, "complete"),
                     UserQuest(2, "u1", 2, "complete") >>

\* the (food_id, quantity) pairs bought
Purchases == {<<"f1", 1>>, <<"f1", 2>>, <<"f2", 1>>, <<"fx", 1>>, <<"f2", 0>>}

PetActionStep(r) ==
  \/ PetActionGetPet(r)
  \/ PetActionCreatePet(r)
  \/ PetActionUpdate(r)

BuyFoodStep(r) ==
  \/ BuyFoodGetPet(r)
  \/ BuyFoodUpdatePet(r)
  \/ BuyFoodGetInventory(r)
  \/ BuyFoodAddFood(r)

FeedPetStep(r) ==
  \/ FeedPetGetPet(r)
  \/ FeedPetGetInventory(r)
  \/ FeedPetUpdatePet(r)
  \/ FeedPetUpdateLevel(r)
  \/ FeedPetUseFood(r)

ClaimQuestStep(r) ==
  \/ ClaimQuestGetQuest(r)
  \/ ClaimQuestGetPet(r)
  \/ ClaimQuestUpdatePet(r)
  \/ ClaimQuestGetInventory(r)
  \/ ClaimQuestAddFood(r)
  \/ ClaimQuestMark(r)

Next ==
  \/ \E op \in PetOps : CanStart /\ StartPetAction(1, op, "u1")
  \/ \E p \in Purchases : CanStart /\ StartBuyFood(1, "u1", p[1], p[2])
  \/ \E f \in FoodIds : CanStart /\ StartFeedPet(1, "u1", f)
  \/ \E id \in DOMAIN userQuests : CanStart /\ StartClaimQuest(1, "u1", id)
  \/ PetActionStep(1)
  \/ BuyFoodStep(1)
  \/ FeedPetStep(1)
  \/ ClaimQuestStep(1)
  \/ AllFree /\ Tick

Spec == Init /\ [][Next]_vars

---------------------------------------------------------------------------
(* SpecClaim: the quest claims of two owners, served one after another,    *)
(* with the worker completing and expiring quests between the requests.    *)

ClaimPet == PetProfile(1, "u1", 9995, 14, 95, 5, 140, NoTime)

\* a pet of level 15, 50 experience short of level 16 and of age stage "teen"
InfantPet == PetProfile(1, "u1", 500, 100, 50, 100, RequirementOf(16) - 50, NoTime)

ClaimQuests ==
  << UserQuest(1, "u1", 1, "complete"),
     UserQuest(2, "u1", 2, "complete"),
     UserQuest(3, "u2", 3, "complete"),
     UserQuest(4, "u1", 4, "pending") >>

InitClaim ==
  /\ InitRequests
  /\ pets \in { <<>>,
                <<ClaimPet, NewPet(2, "u2")>>,
                <<InfantPet, NewPet(2, "u2")>>,
                <<NewPet(1, "u1"), NewPet(2, "u2")>> }
  /\ inventory \in { {},
                     {[inventory_id |-> 1, owner_id |-> "u1", food_id |-> "f1",
                       quantity |-> 1]} }
  /\ nextInvId = 2
  /\ dailyQuests = DailyTable
  /\ userQuests = ClaimQuests

NextClaim ==
  \/ \E owner \in Owners, id \in 1 .. Len(userQuests) + 1 :
       CanStart /\ StartClaimQuest(1, owner, id)
  \/ CanStart /\ StartFeedPet(1, "u1", "f1")
  \/ ClaimQuestStep(1)
  \/ FeedPetStep(1)
  \/ \E id \in DOMAIN userQuests : AllFree /\ WorkerComplete(id)
  \/ \E id \in DOMAIN userQuests : AllFree /\ WorkerExpire(id)

SpecClaim == InitClaim /\ [][NextClaim]_vars

---------------------------------------------------------------------------
(* SpecClaimConc: requests of owner u1 for the same quests in flight       *)
(* together, and the worker expiring quests at any moment.                 *)

InitClaimConc ==
  /\ InitRequests
  /\ pets \in { <<ClaimPet>>, <<[ClaimPet EXCEPT !.pet_coin = 500]>> }
  /\ inventory \in { {},
                     {[inventory_id |-> 1, owner_id |-> "u1", food_id |-> "f1",
                       quantity |-> 1]} }
  /\ nextInvId = 2
  /\ dailyQuests = DailyTable
  /\ userQuests = << UserQuest(1, "u1", 1, "complete"),
                     UserQuest(2, "u1", 2, "complete") >>

NextClaimConc ==
  \/ \E r \in Slots, id \in DOMAIN userQuests :
       ops < MaxConcOps /\ StartClaimQuest(r, "u1", id)
  \/ \E r \in Slots : ClaimQuestStep(r)
  \/ \E id \in DOMAIN userQuests : WorkerExpire(id)

SpecClaimConc == InitClaimConc /\ [][NextClaimConc]_vars

---------------------------------------------------------------------------
(* SpecQuests: the daily quest lists of two owners, served one after       *)
(* another.  SpecQuestsConc: the same requests in flight together.         *)

InitQuests ==
  /\ InitRequests
  /\ pets = <<>>
  /\ inventory = {}
  /\ nextInvId = 1
  /\ dailyQuests \in {DailyTable, DailyTableBoth}
  /\ userQuests = <<>>

QuestsStep(r) ==
  \/ QuestsGetUserQuests(r)
  \/ QuestsGetGlobal(r)
  \/ QuestsGetPersonalized(r)
  \/ QuestsCreate(r)
  \/ QuestsFetch(r)

NextQuests ==
  \/ \E op \in QuestOps, owner \in Owners : CanStart /\ StartQuests(1, op, owner)
  \/ QuestsStep(1)
  \/ \E id \in DOMAIN userQuests : AllFree /\ WorkerComplete(id)
  \/ AllFree /\ Tick

SpecQuests == InitQuests /\ [][NextQuests]_vars

NextQuestsConc ==
  \/ \E r \in Slots, op \in QuestOps :
       ops < MaxConcOps /\ StartQuests(r, op, "u1")
  \/ \E r \in Slots : QuestsStep(r)

SpecQuestsConc == InitQuests /\ [][NextQuestsConc]_vars

---------------------------------------------------------------------------
(* PetsService.createPet and PetsService.getPetStats, and SpecPets: the    *)
(* requests of two owners that may create a pet, served one after another. *)

StartCreatePet(r, owner) ==
  Begin(r, "createPet", owner, NoRef, 0, NoId, "createGetPet")

\* variant: createPet does not look for an existing pet
CreatePetErrorNone(pet) == NoRef

\* `if (existingPet) throw PET_EXISTS`
CreatePetError(pet) == IF pet.pet_id # NoId THEN "PET_EXISTS" ELSE NoRef

CreatePetGetPet(r) ==
  LET req == reqs[r]
      err == CreatePetError(getPetByOwnerId(req.owner))
  IN /\ req.pc = "createGetPet"
     /\ reqs' = [reqs EXCEPT ![r] =
          IF err # NoRef THEN Done(req, err)
          ELSE [req EXCEPT !.pc = "createInsert"]]
     /\ lastOk' = IF err # NoRef THEN NoId ELSE lastOk
     /\ UNCHANGED activities
     /\ UNCHANGED <<now, pets, inventory, nextInvId, dailyQuests, userQuests,
                    ops, credited>>

\* PetsRepository.createPet: the insert, rejected when the owner has a row
InsertPet(r, pc) ==
  LET req == reqs[r]
      pet == NewPet(Len(pets) + 1, req.owner)
  IN /\ req.pc = pc
     /\ IF getPetByOwnerId(req.owner).pet_id # NoId
        THEN /\ reqs' = [reqs EXCEPT ![r] = Done(req, "INTERNAL_SERVER_ERROR")]
             /\ UNCHANGED pets
        ELSE /\ pets' = Append(pets, pet)
             /\ reqs' = [reqs EXCEPT ![r] = [Done(req, "OK") EXCEPT !.pet = pet]]
     /\ lastOk' = NoId
     /\ UNCHANGED activities
     /\ UNCHANGED <<now, inventory, nextInvId, dailyQuests, userQuests, ops,
                    credited>>

CreatePetInsert(r) == InsertPet(r, "createInsert")

StartGetPetStats(r, owner) ==
  Begin(r, "getPetStats", owner, NoRef, 0, NoId, "statsGetPet")

\* getPetStats loads the owner's pet, creating it when there is none, and
\* computes the response from it without writing
GetPetStatsGetPet(r) ==
  LET req == reqs[r]
      pet == getPetByOwnerId(req.owner)
  IN /\ req.pc = "statsGetPet"
     /\ reqs' = [reqs EXCEPT ![r] =
          IF pet.pet_id = NoId THEN [req EXCEPT !.pc = "statsCreatePet"]
          ELSE [Done(req, "OK") EXCEPT !.pet = pet]]
     /\ lastOk' = IF pet.pet_id = NoId THEN lastOk ELSE NoId
     /\ UNCHANGED activities
     /\ UNCHANGED <<now, pets, inventory, nextInvId, dailyQuests, userQuests,
                    ops, credited>>

GetPetStatsCreatePet(r) == InsertPet(r, "statsCreatePet")

InitPets ==
  /\ InitRequests
  /\ pets \in { <<>>, <<NewPet(1, "u2")>>,
                <<PetProfile(1, "u1", 3, 0, 10, 0, 0, NoTime)>> }
  /\ inventory = {}
  /\ nextInvId = 1
  /\ dailyQuests = DailyTable
  /\ userQuests = <<>>

NextPets ==
  \/ \E owner \in Owners : CanStart /\ StartCreatePet(1, owner)
  \/ \E owner \in Owners : CanStart /\ StartGetPetStats(1, owner)
  \/ \E owner \in Owners, op \in PetOps : CanStart /\ StartPetAction(1, op, owner)
  \/ CreatePetGetPet(1)
  \/ CreatePetInsert(1)
  \/ GetPetStatsGetPet(1)
  \/ GetPetStatsCreatePet(1)
  \/ PetActionStep(1)

SpecPets == InitPets /\ [][NextPets]_vars

---------------------------------------------------------------------------
(* SpecPetConc: requests of owner u1 that write the pet (petThePet,        *)
(* feedPet, claimQuest) in flight together.                                *)

InitPetConc ==
  /\ InitRequests
  /\ pets \in { <<>>, <<NewPet(1, "u1")>>, <<ClaimPet>> }
  /\ inventory = {[inventory_id |-> 1, owner_id |-> "u1", food_id |-> "f1",
                   quantity |-> 2]}
  /\ nextInvId = 2
  /\ dailyQuests = DailyTable
  /\ userQuests = << UserQuest(1, "u1", 1, "complete"),
                     UserQuest(2, "u1", 2, "complete") >>

NextPetConc ==
  \/ \E r \in Slots : ops < MaxConcOps /\ StartPetAction(r, "petThePet", "u1")
  \/ \E r \in Slots : ops < MaxConcOps /\ StartFeedPet(r, "u1", "f1")
  \/ \E r \in Slots, id \in DOMAIN userQuests :
       ops < MaxConcOps /\ StartClaimQuest(r, "u1", id)
  \/ \E r \in Slots : PetActionStep(r)
  \/ \E r \in Slots : FeedPetStep(r)
  \/ \E r \in Slots : ClaimQuestStep(r)

SpecPetConc == InitPetConc /\ [][NextPetConc]_vars

---------------------------------------------------------------------------
(* SpecLevel: PetsService.updatePetLevel called on pets of every level.    *)
(* The experience values are those around the requirement of each level,   *)
(* the stored level is the one of the experience or the level 1 an earlier *)
(* claimQuest left behind.                                                 *)

\* a call of updatePetLevel(pet): the argument is the pet the preceding
\* call returned if there is one, else the row a caller has loaded
StartUpdatePetLevel(r) ==
  LET follows == reqs[r].pc = "done" /\ reqs[r].op = "updatePetLevel"
                   /\ reqs[r].pet.pet_id # NoId
      pet == IF follows THEN reqs[r].pet ELSE getPetByOwnerId("u1")
  IN /\ Free(r)
     /\ pet.pet_id # NoId
     /\ reqs' = [reqs EXCEPT ![r] =
          [IdleReq EXCEPT !.op = "updatePetLevel", !.owner = pet.owner_id,
                          !.pc = "levelUpdate", !.pet = pet, !.read = pet,
                          !.again = follows, !.prevOk = lastOk, !.pre = Db]]
     /\ ops' = ops + 1
     /\ UNCHANGED activities
     /\ UNCHANGED <<now, pets, inventory, nextInvId, dailyQuests, userQuests,
                    lastOk, credited>>

\* the body of updatePetLevel: nothing to write, or one updatePetStats
UpdatePetLevelStep(r) ==
  LET req == reqs[r]
      updates == updatePetLevel(req.pet)
  IN /\ req.pc = "levelUpdate"
     /\ pets' = IF DOMAIN updates = {} THEN pets
                ELSE updatePetStats(req.pet.pet_id, updates)
     /\ reqs' = [reqs EXCEPT ![r] =
          [Done(req, "OK") EXCEPT
             !.pet = IF DOMAIN updates = {} THEN req.pet
                     ELSE IF req.pet.pet_id \in DOMAIN pets
                          THEN pets'[req.pet.pet_id] ELSE NullPet,
             !.writes = IF DOMAIN updates = {} THEN 0 ELSE 1]]
     /\ lastOk' = NoId
     /\ UNCHANGED activities
     /\ UNCHANGED <<now, inventory, nextInvId, dailyQuests, userQuests, ops,
                    credited>>

XpSamples ==
  {0, RequirementOf(MAX_LEVEL) + 100000}
    \cup {RequirementOf(L) - 1 : L \in 2 .. MAX_LEVEL + 1}
    \cup {RequirementOf(L) : L \in 2 .. MAX_LEVEL + 1}

LevelPets ==
  { PetProfile(1, "u1", 500, 100, 100, 100, xp, NoTime) : xp \in XpSamples }
    \cup { [NewPet(1, "u1") EXCEPT !.experience = xp] : xp \in XpSamples }

InitLevel ==
  /\ InitRequests
  /\ pets \in {<<p>> : p \in LevelPets}
  /\ inventory = {}
  /\ nextInvId = 1
  /\ dailyQuests = DailyTable
  /\ userQuests = <<>>

NextLevel ==
  \/ CanStart /\ StartUpdatePetLevel(1)
  \/ UpdatePetLevelStep(1)

SpecLevel == InitLevel /\ [][NextLevel]_vars

---------------------------------------------------------------------------
(* Properties *)

\* the owner's pet in a pets table (NullPet: none)
PetIn(table, owner) ==
  IF \E i \in DOMAIN table : table[i].owner_id = owner
  THEN table[CHOOSE i \in DOMAIN table : table[i].owner_id = owner]
  ELSE NullPet

\* the owner's quantity of a food in an inventory table (0: no row)
RECURSIVE SumQuantity(_)
SumQuantity(rows) ==
  IF rows = {} THEN 0
  ELSE LET row == CHOOSE x \in rows : TRUE
       IN row.quantity + SumQuantity(rows \ {row})

QuantityIn(table, owner, f) ==
  SumQuantity({row \in table : row.owner_id = owner /\ row.food_id = f})

Returned(req, op) == req.pc = "done" /\ req.op = op

\* C1: in every state reached by the pet actions, buyFood, feedPet and
\* claimQuest from a created pet, each of pet_energy, pet_hunger,
\* pet_cleanliness and pet_happiness is in [0,100] and pet_coin in [0,9999].
GaugesInRange ==
  \A i \in DOMAIN pets :
    /\ pets[i].pet_energy \in 0 .. 100
    /\ pets[i].pet_hunger \in 0 .. 100
    /\ pets[i].pet_cleanliness \in 0 .. 100
    /\ pets[i].pet_happiness \in 0 .. 100
    /\ pets[i].pet_coin \in 0 .. 9999

\* a bath whose 8 coins did not fit under the limit
GaugesClamped ==
  /\ Returned(reqs[1], "completeBathMinigame")
  /\ reqs[1].code = "OK"
  /\ reqs[1].pre.pets[1].pet_coin + 8 > COIN_LIMIT
  /\ pets[1].pet_coin = COIN_LIMIT

OwedClaimError(table, owner, id) ==
  IF id \notin DOMAIN table THEN "QUEST_NOT_FOUND"
  ELSE IF table[id].owner_id # owner THEN "QUEST_NOT_OWNED"
  ELSE IF table[id].status = "claimed" THEN "QUEST_ALREADY_CLAIMED"
  ELSE IF table[id].status = "expired" THEN "QUEST_EXPIRED"
  ELSE IF table[id].status = "pending" THEN "QUEST_NOT_COMPLETE"
  ELSE NoRef

\* C4: claimQuest fails with QUEST_NOT_FOUND, else QUEST_NOT_OWNED, else
\* QUEST_ALREADY_CLAIMED, else QUEST_EXPIRED, else QUEST_NOT_COMPLETE, in
\* this order of precedence, and in each case changes no pet, inventory or
\* user quest.
ClaimErrorsInOrder ==
  \A r \in Slots :
    LET req == reqs[r]
        owed == OwedClaimError(req.pre.userQuests, req.owner, req.uq)
    IN (Returned(req, "claimQuest") /\ owed # NoRef)
       => (req.code = owed /\ Db = req.pre)

\* a claimed quest claimed by somebody else: not owned comes first
ClaimRefusedInOrder ==
  \E r \in Slots :
    /\ Returned(reqs[r], "claimQuest")
    /\ reqs[r].uq \in DOMAIN reqs[r].pre.userQuests
    /\ reqs[r].pre.userQuests[reqs[r].uq].status = "claimed"
    /\ reqs[r].code = "QUEST_NOT_OWNED"

\* C5: a successful claimQuest of a complete user quest sets pet_coin to
\* min(pet_coin + reward_money, 9999), experience to experience +
\* reward_experience, pet_hunger to min(pet_hunger + hunger_recovery, 100),
\* adds exactly 1 to the owner's quantity of the reward food when the
\* reward type is "food", and leaves the quest claimed.
ClaimGrantsRewards ==
  \A r \in Slots :
    LET req == reqs[r]
        before == PetIn(req.pre.pets, req.owner)
        after == PetIn(pets, req.owner)
        questDef == QuestDefinition(
                      dailyQuests[req.pre.userQuests[req.uq].daily_quest_id]
                        .quest_definition_id)
    IN (Returned(req, "claimQuest") /\ req.code = "QUEST_CLAIMED")
       => /\ req.pre.userQuests[req.uq].status = "complete"
          /\ after.pet_coin = Min(before.pet_coin + questDef.reward_money, 9999)
          /\ after.experience = before.experience + questDef.reward_experience
          /\ after.pet_hunger = Min(before.pet_hunger + questDef.hunger_recovery, 100)
          /\ questDef.reward_type = "food" =>
               QuantityIn(inventory, req.owner, questDef.reward_food_id)
                 = QuantityIn(req.pre.inventory, req.owner,
                              questDef.reward_food_id) + 1
          /\ userQuests[req.uq].status = "claimed"

\* a claim that clamped the coins and raised an existing food row from 1 to 2
ClaimGranted ==
  \E r \in Slots :
    /\ Returned(reqs[r], "claimQuest")
    /\ reqs[r].code = "QUEST_CLAIMED"
    /\ PetIn(pets, reqs[r].owner).pet_coin = COIN_LIMIT
    /\ PetIn(reqs[r].pre.pets, reqs[r].owner).pet_coin < COIN_LIMIT
    /\ QuantityIn(reqs[r].pre.inventory, reqs[r].owner, "f1") = 1
    /\ QuantityIn(inventory, reqs[r].owner, "f1") = 2

\* C6: once feedPet or claimQuest has returned successfully, the stored
\* level and age_stage of the owner's pet are those calculateLevelFromXP
\* gives for its stored experience.
LevelFollowsExperience ==
  \A r \in Slots :
    LET req == reqs[r]
        pet == PetIn(pets, req.owner)
    IN ( \/ Returned(req, "feedPet") /\ req.code = "OK"
         \/ Returned(req, "claimQuest") /\ req.code = "QUEST_CLAIMED" )
       => /\ pet.level = calculateLevelFromXP(pet.experience).level
          /\ pet.age_stage = calculateLevelFromXP(pet.experience).age_stage

\* C10: a claimQuest call that ends in an error leaves the pets and the
\* food inventory as they were before the call, so that no pet is credited
\* for a quest that is still "complete".
ClaimAllOrNothing ==
  \A r \in Slots :
    LET req == reqs[r]
    IN (Returned(req, "claimQuest") /\ req.code # "QUEST_CLAIMED")
       => /\ pets = req.pre.pets
          /\ inventory = req.pre.inventory
          /\ \A id \in DOMAIN credited :
               credited[id] > 0 => userQuests[id].status # "complete"

RECURSIVE SumExperience(_)
\* the reward_experience of the user quests `ids`, added up
SumExperience(ids) ==
  IF ids = {} THEN 0
  ELSE LET id == CHOOSE x \in ids : TRUE
       IN QuestDefOf(userQuests[id]).reward_experience
            + SumExperience(ids \ {id})

\* C2: whatever the interleaving of the claimQuest requests for a complete
\* user quest, at most one of them credits the owner's pet, and once all
\* have returned the pet holds the experience of one reward for every
\* quest credited.
ClaimCreditsOnce ==
  /\ \A id \in DOMAIN credited : credited[id] <= 1
  /\ AllFree =>
       pets[1].experience = ClaimPet.experience + SumExperience(DOMAIN credited)

\* C9: the status of a user quest only moves forward: a quest that is
\* claimed or expired keeps its status, and a status becomes "claimed" only
\* from "complete", also when the worker expires the quest during a claim.
StatusOnlyForward ==
  [][\A id \in DOMAIN userQuests :
       /\ userQuests[id].status \in {"claimed", "expired"}
            => userQuests'[id].status = userQuests[id].status
       /\ (userQuests'[id].status = "claimed" /\ userQuests[id].status # "claimed")
            => userQuests[id].status = "complete"]_vars

\* C7: no two user quest rows of one owner, created on the same day, are for
\* the same daily quest.
OneUserQuestPerDailyQuest ==
  \A i, j \in DOMAIN userQuests :
    ( /\ i # j
      /\ userQuests[i].owner_id = userQuests[j].owner_id
      /\ userQuests[i].created_at \div MsPerDay = userQuests[j].created_at \div MsPerDay )
    => userQuests[i].daily_quest_id # userQuests[j].daily_quest_id

\* the daily quests of today an owner is eligible for, and the owner's user
\* quests of today in a table
Eligible(owner) ==
  {i \in DOMAIN dailyQuests :
     /\ isToday(dailyQuests[i].timestamp)
     /\ dailyQuests[i].scope = "global" \/ dailyQuests[i].target_user_id = owner}

TodaysOf(table, owner) ==
  {i \in DOMAIN table : table[i].owner_id = owner /\ isToday(table[i].created_at)}

\* C8: for an owner with N eligible daily quests and no user quest of today,
\* getUserQuestsForTheDay creates exactly N rows, each "pending" and expiring
\* at 23:59:59.999 of the day; a call that finds N rows of today creates
\* none and returns those N.
LazyCreationExact ==
  \A r \in Slots :
    LET req == reqs[r]
        n == Cardinality(Eligible(req.owner))
        had == TodaysOf(req.pre.userQuests, req.owner)
        has == TodaysOf(userQuests, req.owner)
    IN (req.pc = "done" /\ req.op \in QuestOps)
       => /\ had = {} =>
               /\ Cardinality(has) = n
               /\ \A i \in has : /\ userQuests[i].status = "pending"
                                 /\ userQuests[i].expires_at = EndOfToday
          /\ (had # {} /\ Cardinality(had) = n) =>
               /\ userQuests = req.pre.userQuests
               /\ {req.list[i].user_quest_id : i \in DOMAIN req.list} = had

\* a request that returned successfully
Succeeded(req) ==
  /\ req.pc = "done"
  /\ req.code = IF req.op = "claimQuest" THEN "QUEST_CLAIMED" ELSE "OK"

\* C11: when two requests of one owner in flight together have read the
\* same pet row and both succeed, the stored pet shows the effect of one of
\* them only on a field both wrote: after two petThePet calls pet_coin,
\* pet_happiness and pet_energy moved by 1 from the row read, not by 2, and
\* after a feedPet and a claimQuest the experience grew by the food's
\* xp_gain or by the quest's reward_experience, not by both.
LostUpdate ==
  \A r, s \in Slots :
    LET a == reqs[r]
        b == reqs[s]
        pet == PetIn(pets, a.owner)
    IN ( /\ r # s
         /\ Succeeded(a) /\ Succeeded(b)
         /\ a.owner = b.owner
         /\ a.read.pet_id # NoId
         /\ a.read = b.read )
       => /\ (a.op = "petThePet" /\ b.op = "petThePet") =>
               /\ pet.pet_coin = Min(a.read.pet_coin + 1, COIN_LIMIT)
               /\ pet.pet_happiness = Min(a.read.pet_happiness + 1, HAPPINESS_LIMIT)
               /\ pet.pet_energy = Max(a.read.pet_energy - 1, 0)
          /\ (a.op = "feedPet" /\ b.op = "claimQuest") =>
               pet.experience \in
                 { a.read.experience + PetFood(a.food).xp_gain,
                   a.read.experience + QuestDefOf(b.quest).reward_experience }

\* two petThePet calls that read coin 500 both returned, and the coin is 501
UpdateLost ==
  \E r, s \in Slots :
    /\ r # s
    /\ Succeeded(reqs[r]) /\ reqs[r].op = "petThePet"
    /\ Succeeded(reqs[s]) /\ reqs[s].op = "petThePet"
    /\ reqs[r].read = reqs[s].read
    /\ reqs[r].read.pet_coin + 1 < COIN_LIMIT
    /\ PetIn(pets, "u1").pet_coin = reqs[r].read.pet_coin + 1

\* experience gains tried on top of a pet's experience
Gains == {1, 10, 50, 60, 149, 150, RequirementOf(MAX_LEVEL)}

\* C12: for the experience of every pet, calculateLevelFromXP gives the
\* largest level of 1..50 whose requirement is at most the experience, with
\* age stage "infant" up to level 15, "teen" up to 35 and "adult" above, and
\* the level of a larger experience is never lower.
LevelIsLargestReached ==
  \A i \in DOMAIN pets :
    LET xp == pets[i].experience
        calc == calculateLevelFromXP(xp)
    IN /\ calc.level \in 1 .. MAX_LEVEL
       /\ RequirementOf(calc.level) <= xp
       /\ calc.level < MAX_LEVEL => xp < RequirementOf(calc.level + 1)
       /\ calc.age_stage = IF calc.level \in 1 .. 15 THEN "infant"
                           ELSE IF calc.level \in 16 .. 35 THEN "teen"
                           ELSE "adult"
       /\ \A d \in Gains : calculateLevelFromXP(xp + d).level >= calc.level

\* updatePetLevel has stored level 16, "teen", for a pet whose experience is
\* exactly the requirement of level 16
LevelReachedAtRequirement ==
  /\ Returned(reqs[1], "updatePetLevel")
  /\ reqs[1].writes = 1
  /\ pets[1].experience = RequirementOf(16)
  /\ pets[1].level = 16
  /\ pets[1].age_stage = "teen"

\* C13: a call of updatePetLevel on the pet the preceding call returned
\* writes nothing and returns the pet with the same level and age_stage.
UpdatePetLevelIdempotent ==
  \A r \in Slots :
    (Returned(reqs[r], "updatePetLevel") /\ reqs[r].again)
    => /\ reqs[r].writes = 0
       /\ pets = reqs[r].pre.pets
       /\ reqs[r].pet.level = reqs[r].read.level
       /\ reqs[r].pet.age_stage = reqs[r].read.age_stage

\* the second of two calls has returned, on a pet the first call returned
\* with a level above 1
UpdatePetLevelRepeated ==
  /\ Returned(reqs[1], "updatePetLevel")
  /\ reqs[1].again
  /\ reqs[1].read.level > 1
  /\ ops >= 2

\* C14: a successful feedPet has set pet_hunger to the hunger before plus
\* the food's hunger_fill_amount, at most 100, experience to the experience
\* before plus the food's xp_gain and pet_coin to the coin before plus 2, at
\* most 9999, and has lowered the owner's quantity of that food by 1, the
\* inventory row being deleted at quantity 0 and no other row changed.
FeedPetEffects ==
  \A r \in Slots :
    LET req == reqs[r]
        before == PetIn(req.pre.pets, req.owner)
        pet == PetIn(pets, req.owner)
        food == PetFood(req.food)
        mine(row) == row.owner_id = req.owner /\ row.food_id = req.food
    IN (Returned(req, "feedPet") /\ req.code = "OK")
       => /\ pet.pet_hunger = Min(before.pet_hunger + food.hunger_fill_amount, 100)
          /\ pet.experience = before.experience + food.xp_gain
          /\ pet.pet_coin = Min(before.pet_coin + 2, 9999)
          /\ QuantityIn(inventory, req.owner, req.food)
               = QuantityIn(req.pre.inventory, req.owner, req.food) - 1
          /\ \A row \in inventory : mine(row) => row.quantity >= 1
          /\ {row \in inventory : ~mine(row)}
               = {row \in req.pre.inventory : ~mine(row)}

\* a pet of hunger 95 was fed the last unit of a food that fills 20: its
\* hunger is 100 and the inventory row is gone
FedToTheCap ==
  \E r \in Slots :
    /\ Returned(reqs[r], "feedPet") /\ reqs[r].code = "OK"
    /\ PetIn(reqs[r].pre.pets, "u1").pet_hunger = 95
    /\ PetFood(reqs[r].food).hunger_fill_amount = 20
    /\ PetIn(pets, "u1").pet_hunger = 100
    /\ QuantityIn(reqs[r].pre.inventory, "u1", reqs[r].food) = 1
    /\ ~\E row \in inventory : row.owner_id = "u1" /\ row.food_id = reqs[r].food

\* C15: after a successful feedPet the pet stored and the pet returned have
\* the level and age_stage calculateLevelFromXP gives for the new experience,
\* whatever level and age_stage the pet had before the call.
FeedPetRecomputesLevel ==
  \A r \in Slots :
    LET req == reqs[r]
        pet == PetIn(pets, req.owner)
        calc == calculateLevelFromXP(pet.experience)
    IN (Returned(req, "feedPet") /\ req.code = "OK")
       => /\ pet.level = calc.level
          /\ pet.age_stage = calc.age_stage
          /\ req.pet.experience = pet.experience
          /\ req.pet.level = calc.level
          /\ req.pet.age_stage = calc.age_stage

\* feedPet has returned for a pet whose stored level an earlier claimQuest
\* had left behind its experience
FedAfterStaleLevel ==
  \E r \in Slots :
    LET before == PetIn(reqs[r].pre.pets, reqs[r].owner)
    IN /\ Returned(reqs[r], "feedPet") /\ reqs[r].code = "OK"
       /\ before.level # calculateLevelFromXP(before.experience).level
       /\ PetIn(pets, reqs[r].owner).level > before.level

\* the pet a pet action of request req works on: the owner's pet before the
\* call, or the pet the call creates for an owner who has none
PetFound(req) ==
  IF PetIn(req.pre.pets, req.owner).pet_id # NoId
  THEN PetIn(req.pre.pets, req.owner)
  ELSE NewPet(Len(req.pre.pets) + 1, req.owner)

\* C16: while the owner's pet is asleep (sleep_until not null and later than
\* now), petThePet, feedPet, completeBathMinigame and completeBounceMinigame
\* fail with PET_SLEEPING and leave the pets and the food inventory as they
\* were.
SleepingPetRefuses ==
  \A r \in Slots :
    LET req == reqs[r]
        before == PetIn(req.pre.pets, req.owner)
    IN ( /\ req.pc = "done"
         /\ req.op \in {"petThePet", "feedPet", "completeBathMinigame",
                        "completeBounceMinigame"}
         /\ before.pet_id # NoId
         /\ before.sleep_until # NoTime
         /\ now < before.sleep_until )
       => /\ req.code = "PET_SLEEPING"
          /\ pets = req.pre.pets
          /\ inventory = req.pre.inventory

\* feedPet was refused for a sleeping pet whose owner has the food
SleepingPetNotFed ==
  \E r \in Slots :
    /\ Returned(reqs[r], "feedPet")
    /\ reqs[r].code = "PET_SLEEPING"
    /\ now < PetIn(pets, "u1").sleep_until
    /\ QuantityIn(inventory, "u1", reqs[r].food) >= 1

\* C17: a successful sleepPet at time t stores sleep_until = t + 1 hour; a
\* wakePet before sleep_until fails with SLEEP_NOT_COMPLETED, reports the
\* remaining time rounded up to minutes, more than 0, and leaves the pet
\* unchanged; a wakePet at sleep_until or later succeeds.
WakeOnlyAfterSleep ==
  \A r \in Slots :
    LET req == reqs[r]
        before == PetIn(req.pre.pets, req.owner)
        left == before.sleep_until - now
    IN /\ (Returned(req, "sleepPet") /\ req.code = "OK")
            => PetIn(pets, req.owner).sleep_until = now + 60 * 60 * 1000
       /\ (Returned(req, "wakePet") /\ before.pet_id # NoId
             /\ before.sleep_until # NoTime)
            => IF now < before.sleep_until
               THEN /\ req.code = "SLEEP_NOT_COMPLETED"
                    /\ req.minutes > 0
                    /\ (req.minutes - 1) * 60000 < left
                    /\ left <= req.minutes * 60000
                    /\ pets = req.pre.pets
               ELSE req.code = "OK"

\* wakePet succeeded at the very millisecond the sleep ended
WokenAtSleepUntil ==
  \E r \in Slots :
    /\ Returned(reqs[r], "wakePet")
    /\ reqs[r].code = "OK"
    /\ PetIn(reqs[r].pre.pets, "u1").sleep_until = now

\* C18: a successful wakePet has set sleep_until to null, pet_energy to 100,
\* pet_coin to the coin before plus 5 (at most 9999), pet_hunger to the
\* hunger before minus 20 and pet_cleanliness to the cleanliness before
\* minus 10 (at least 0), and pet_mood to "sad" if the hunger it stored is
\* at most 10, to "excited" otherwise.
WakePetEffects ==
  \A r \in Slots :
    LET req == reqs[r]
        before == PetIn(req.pre.pets, req.owner)
        pet == PetIn(pets, req.owner)
    IN (Returned(req, "wakePet") /\ req.code = "OK")
       => /\ pet.sleep_until = NoTime
          /\ pet.pet_energy = 100
          /\ pet.pet_coin = Min(before.pet_coin + 5, 9999)
          /\ pet.pet_hunger = Max(before.pet_hunger - 20, 0)
          /\ pet.pet_cleanliness = Max(before.pet_cleanliness - 10, 0)
          /\ pet.pet_mood = IF pet.pet_hunger <= 10 THEN "sad" ELSE "excited"

\* C19: sleepPet fails with PET_ALREADY_SLEEPING and changes nothing when
\* the pet is asleep; otherwise, also for a pet whose sleep has ended and
\* that was never woken, it succeeds and changes only sleep_until, to now +
\* 1 hour, and pet_mood, to "sleepy".
SleepPetEffects ==
  \A r \in Slots :
    LET req == reqs[r]
        before == PetFound(req)
    IN Returned(req, "sleepPet")
       => IF before.sleep_until # NoTime /\ now < before.sleep_until
          THEN /\ req.code = "PET_ALREADY_SLEEPING"
               /\ pets = req.pre.pets
               /\ inventory = req.pre.inventory
          ELSE /\ req.code = "OK"
               /\ PetIn(pets, req.owner) =
                    [before EXCEPT !.sleep_until = now + 60 * 60 * 1000,
                                   !.pet_mood = "sleepy"]

\* a pet whose sleep had ended without a wakePet was put to sleep again
OversleptPetSleeps ==
  \E r \in Slots :
    LET before == PetIn(reqs[r].pre.pets, "u1")
    IN /\ Returned(reqs[r], "sleepPet")
       /\ reqs[r].code = "OK"
       /\ before.sleep_until # NoTime
       /\ before.sleep_until <= now
       /\ PetIn(pets, "u1").sleep_until = now + 60 * 60 * 1000

\* C20: for a pet that is awake, completeBathMinigame fails with
\* INSUFFICIENT_ENERGY exactly when pet_energy < 10 and
\* completeBounceMinigame exactly when pet_energy < 15, the pet staying as
\* it was; petThePet succeeds at any energy, energy 0 staying 0.
EnergyPreconditions ==
  \A r \in Slots :
    LET req == reqs[r]
        before == PetFound(req)
        awake == ~(before.sleep_until # NoTime /\ now < before.sleep_until)
        need == IF req.op = "completeBathMinigame" THEN 10 ELSE 15
    IN (req.pc = "done" /\ awake)
       => /\ req.op \in {"completeBathMinigame", "completeBounceMinigame"}
               => /\ req.code = IF before.pet_energy < need
                                THEN "INSUFFICIENT_ENERGY" ELSE "OK"
                  /\ req.code = "INSUFFICIENT_ENERGY" => pets = req.pre.pets
          /\ req.op = "petThePet"
               => /\ req.code = "OK"
                  /\ PetIn(pets, req.owner).pet_energy
                       = Max(before.pet_energy - 1, 0)

\* the bath was taken by a pet of energy exactly 10
BathAtEnergyTen ==
  \E r \in Slots :
    /\ Returned(reqs[r], "completeBathMinigame")
    /\ reqs[r].code = "OK"
    /\ PetIn(reqs[r].pre.pets, "u1").pet_energy = 10
    /\ PetIn(pets, "u1").pet_energy = 0

\* C21: no step of feedPet and claimQuest requests of one owner, run one
\* after another or in flight together, lowers the stored experience of a
\* pet.
ExperienceNeverDecreases ==
  [][\A i \in DOMAIN pets :
       pets'[i].experience >= pets[i].experience]_vars

\* C22: no owner has two pets, whatever getPetStats, pet action and
\* createPet calls were served; createPet for an owner who has a pet fails
\* with PET_EXISTS and leaves the pets as they were, and for an owner who
\* has none it stores one new pet.
OnePetPerOwner ==
  /\ \A i, j \in DOMAIN pets : pets[i].owner_id = pets[j].owner_id => i = j
  /\ \A r \in Slots :
       LET req == reqs[r]
       IN Returned(req, "createPet")
          => IF PetIn(req.pre.pets, req.owner).pet_id # NoId
             THEN req.code = "PET_EXISTS" /\ pets = req.pre.pets
             ELSE /\ req.code = "OK"
                  /\ pets = Append(req.pre.pets,
                                   NewPet(Len(req.pre.pets) + 1, req.owner))

\* createPet was refused for an owner who has a pet, after an earlier
\* request, while the other owner has a pet too
SecondPetRefused ==
  \E r \in Slots :
    /\ Returned(reqs[r], "createPet")
    /\ reqs[r].code = "PET_EXISTS"
    /\ ops >= 2
    /\ Len(pets) = 2

---------------------------------------------------------------------------
(* Gratitude jar (GratitudeJarService, GratitudeEntryRepository).          *)
(*                                                                         *)
(* created_at is a timestamptz column filled by the database clock, which  *)
(* counts microseconds.  An entity read from the table holds the column as *)
(* a JavaScript Date, which counts milliseconds, and a Date bound to a     *)
(* query is sent with its milliseconds.  A stored timestamp is therefore   *)
(* a pair of milliseconds and microseconds within the millisecond, and a   *)
(* Date an integer in milliseconds.                                        *)
(* gratitude_id is a generated uuid: an identifier whose order is          *)
(* unrelated to the order of insertion.                                    *)

Timestamp(ms, us) == [ms |-> ms, us |-> us]

\* the Date an entity holds for a stored timestamptz
ToDate(ts) == ts.ms

\* the timestamptz a Date parameter of a query denotes
FromDate(d) == Timestamp(d, 0)

\* the order of timestamptz values
Earlier(a, b) == a.ms < b.ms \/ (a.ms = b.ms /\ a.us < b.us)

GratitudeEntry(id, user, created, deleted) ==
  [gratitude_id |-> id, user_id |-> user, created_at |-> created,
   is_deleted |-> deleted]

NullEntry == GratitudeEntry(NoId, NoRef, Timestamp(NoTime, 0), FALSE)

EntriesOf(table) == {table[i] : i \in DOMAIN table}

\* repo.findOne({ where: { gratitude_id } })
findOneEntry(table, id) ==
  IF \E e \in EntriesOf(table) : e.gratitude_id = id
  THEN CHOOSE e \in EntriesOf(table) : e.gratitude_id = id
  ELSE NullEntry

\* ORDER BY created_at DESC, gratitude_id DESC
ComesBefore(a, b) ==
  \/ Earlier(b.created_at, a.created_at)
  \/ a.created_at = b.created_at /\ a.gratitude_id > b.gratitude_id

RECURSIVE OrderDesc(_)
OrderDesc(S) ==
  IF S = {} THEN <<>>
  ELSE LET first == CHOOSE e \in S : \A o \in S \ {e} : ComesBefore(e, o)
       IN <<first>> \o OrderDesc(S \ {first})

\* take: limit
Take(seq, n) == SubSeq(seq, 1, Min(n, Len(seq)))

findByUserAfterId(table, user_id, lastEntryId, limit) ==
  LET lastEntry == IF lastEntryId # NoId THEN findOneEntry(table, lastEntryId)
                   ELSE NullEntry
      at == FromDate(ToDate(lastEntry.created_at))
      Where(e) ==
        /\ e.user_id = user_id
        /\ ~e.is_deleted
        /\ lastEntry # NullEntry
           => \/ Earlier(e.created_at, at)
              \/ e.created_at = at /\ e.gratitude_id < lastEntry.gratitude_id
  IN Take(OrderDesc({e \in EntriesOf(table) : Where(e)}), limit)

\* the page GratitudeJarService.getEntriesByUser returns
getEntriesByUser(table, userId, limit, lastEntryId) ==
  LET fetchLimit == limit + 1
      entries == findByUserAfterId(table, userId, lastEntryId, fetchLimit)
      hasMore == Len(entries) > limit
      slicedEntries == IF hasMore THEN SubSeq(entries, 1, limit) ELSE entries
  IN [entries |-> [i \in DOMAIN slicedEntries |-> slicedEntries[i].gratitude_id],
      hasMore |-> hasMore,
      nextCursor |-> IF hasMore
                     THEN slicedEntries[Len(slicedEntries)].gratitude_id
                     ELSE NoId]

\* the limits a client asks for (the controller accepts 1..50)
MaxLimit == 2
Limits == 1..MaxLimit

\* the writes and paging runs of one behaviour
MaxCalls == 2

\* the response of an activity request served in one piece
Answer(op, user, id, found, count, list, pre) ==
  [r \in Slots |->
     IF r = 1
     THEN [op |-> op, user |-> user, id |-> id, input |-> <<>>,
           pc |-> "done", found |-> found, count |-> count, list |-> list,
           code |-> "OK", pre |-> pre]
     ELSE IdleCall]

\* the client keeps the cursor of the page it received
Received(user, limit, seen, pages, page) ==
  [state |-> IF page.hasMore THEN "paging" ELSE "done",
   user |-> user, limit |-> limit, cursor |-> page.nextCursor,
   pages |-> Append(pages, page), seen |-> seen \o page.entries]

\* GET /gratitude-jar?limit=L with no cursor
GetFirstPage(user, limit) ==
  /\ pager.state # "paging"
  /\ ops < MaxCalls
  /\ ops' = ops + 1
  /\ pager' = Received(user, limit, <<>>, <<>>,
                       getEntriesByUser(gratitude, user, limit, NoId))
  /\ calls' = [r \in Slots |-> IdleCall]
  /\ UNCHANGED <<now, pets, inventory, nextInvId, dailyQuests, userQuests,
                 reqs, lastOk, credited>>
  /\ UNCHANGED <<gratitude, journal, checkIns, flipFeel, flipFeelResponses>>

\* GET /gratitude-jar?limit=L&lastEntryId=<nextCursor of the previous page>
GetNextPage ==
  /\ pager.state = "paging"
  /\ pager' = Received(pager.user, pager.limit, pager.seen, pager.pages,
                       getEntriesByUser(gratitude, pager.user, pager.limit,
                                        pager.cursor))
  /\ UNCHANGED <<now, pets, inventory, nextInvId, dailyQuests, userQuests,
                 reqs, ops, lastOk, credited>>
  /\ UNCHANGED <<gratitude, journal, checkIns, flipFeel, flipFeelResponses,
                 calls>>

GratitudeIds == 1..8
SubMs == {0, 400}

UnusedIds(table) ==
  {id \in GratitudeIds : \A e \in EntriesOf(table) : e.gratitude_id # id}

\* the uuids a new row may get, below or above those in the table
FreshIds(table) ==
  {id \in UnusedIds(table) :
     \/ \A o \in UnusedIds(table) : id <= o
     \/ \A o \in UnusedIds(table) : id >= o}

\* GratitudeEntryRepository.createEntry; created_at is the database clock
createEntry(table, id, user_id, us) ==
  Append(table, GratitudeEntry(id, user_id, Timestamp(now, us), FALSE))

\* GratitudeJarService.addEntry, between two paging runs
AddEntry(user, id, us) ==
  /\ pager.state # "paging"
  /\ ops < MaxCalls
  /\ id \in FreshIds(gratitude)
  /\ ops' = ops + 1
  /\ gratitude' = createEntry(gratitude, id, user, us)
  /\ pager' = IdlePager
  /\ calls' = Answer("addEntry", user, id, TRUE, 0, {}, gratitude)
  /\ UNCHANGED <<now, pets, inventory, nextInvId, dailyQuests, userQuests,
                 reqs, lastOk, credited>>
  /\ UNCHANGED <<journal, checkIns, flipFeel, flipFeelResponses>>

\* a lookup by id that leaves the flag out of its where clause
findByIdAnyFlag(table, id) ==
  findOneEntry(table, id)

\* repo.findOne({ where: { gratitude_id, is_deleted: false } })
findById(table, id) ==
  IF \E e \in EntriesOf(table) : e.gratitude_id = id /\ ~e.is_deleted
  THEN CHOOSE e \in EntriesOf(table) : e.gratitude_id = id /\ ~e.is_deleted
  ELSE NullEntry

\* GratitudeEntryRepository.softDelete
softDelete(table, id) ==
  IF findById(table, id) = NullEntry THEN table
  ELSE [i \in DOMAIN table |->
          IF table[i].gratitude_id = id
          THEN [table[i] EXCEPT !.is_deleted = TRUE]
          ELSE table[i]]

\* GratitudeJarService.softDeleteEntry, between two paging runs; it returns
\* null when findById found no entry
SoftDeleteEntry(id) ==
  /\ pager.state # "paging"
  /\ ops < MaxCalls
  /\ ops' = ops + 1
  /\ gratitude' = softDelete(gratitude, id)
  /\ pager' = IdlePager
  /\ calls' = Answer("softDeleteEntry", NoRef, id,
                     findById(gratitude, id) # NullEntry, 0, {}, gratitude)
  /\ UNCHANGED <<now, pets, inventory, nextInvId, dailyQuests, userQuests,
                 reqs, lastOk, credited>>
  /\ UNCHANGED <<journal, checkIns, flipFeel, flipFeelResponses>>

\* the jars of the initial states, written earlier in the day: five live
\* entries of u1 among those of u2 and a deleted one; two entries written
\* within one millisecond; two entries carrying the same whole millisecond
EarlierToday == StartOfRun - MsPerHour

GratitudeTables ==
  { <<>>,
    << GratitudeEntry(3, "u1", Timestamp(EarlierToday, 0), FALSE),
       GratitudeEntry(1, "u1", Timestamp(EarlierToday + 1, 0), FALSE),
       GratitudeEntry(5, "u2", Timestamp(EarlierToday + 2, 0), FALSE),
       GratitudeEntry(2, "u1", Timestamp(EarlierToday + 3, 0), TRUE),
       GratitudeEntry(4, "u1", Timestamp(EarlierToday + 4, 0), FALSE),
       GratitudeEntry(7, "u1", Timestamp(EarlierToday + 5, 0), FALSE),
       GratitudeEntry(6, "u1", Timestamp(EarlierToday + 6, 0), FALSE) >>,
    << GratitudeEntry(2, "u1", Timestamp(EarlierToday, 200), FALSE),
       GratitudeEntry(1, "u1", Timestamp(EarlierToday, 400), FALSE) >>,
    << GratitudeEntry(1, "u1", Timestamp(EarlierToday, 0), FALSE),
       GratitudeEntry(2, "u1", Timestamp(EarlierToday, 0), FALSE),
       GratitudeEntry(3, "u2", Timestamp(EarlierToday, 0), FALSE) >> }

\* no pet, food or quest request is made
NoPetRequests ==
  /\ reqs = [r \in Slots |-> IdleReq]
  /\ ops = 0
  /\ lastOk = NoId
  /\ credited = <<>>
  /\ now = StartOfRun
  /\ pets = <<>>
  /\ inventory = {}
  /\ nextInvId = 1
  /\ dailyQuests = <<>>
  /\ userQuests = <<>>

InitGratitude ==
  /\ NoPetRequests
  /\ gratitude \in GratitudeTables
  /\ journal = <<>>
  /\ checkIns = <<>>
  /\ flipFeel = <<>>
  /\ flipFeelResponses = <<>>
  /\ calls = [r \in Slots |-> IdleCall]
  /\ pager = IdlePager

NextGratitude ==
  \/ \E user \in Owners, limit \in Limits : GetFirstPage(user, limit)
  \/ GetNextPage
  \/ \E user \in Owners, id \in GratitudeIds, us \in SubMs :
       AddEntry(user, id, us)
  \/ \E id \in GratitudeIds : SoftDeleteEntry(id)

SpecGratitude == InitGratitude /\ [][NextGratitude]_vars

\* the user's entries that are not deleted, newest first
LiveEntries(table, user) ==
  LET listed == OrderDesc({e \in EntriesOf(table) :
                             e.user_id = user /\ ~e.is_deleted})
  IN [i \in DOMAIN listed |-> listed[i].gratitude_id]

\* C23: a paging run of getEntriesByUser that follows nextCursor with a fixed
\* limit returns every entry of the user that is not deleted exactly once,
\* newest first by (created_at, gratitude_id); every page but the last holds
\* exactly limit entries with hasMore true and the id of its last entry as
\* nextCursor, and the last page has hasMore false and no nextCursor.
PaginationComplete ==
  pager.state = "done"
  => /\ pager.seen = LiveEntries(gratitude, pager.user)
     /\ \A i \in DOMAIN pager.pages :
          LET page == pager.pages[i]
          IN IF i < Len(pager.pages)
             THEN /\ Len(page.entries) = pager.limit
                  /\ page.hasMore
                  /\ page.nextCursor = page.entries[Len(page.entries)]
             ELSE ~page.hasMore /\ page.nextCursor = NoId

---------------------------------------------------------------------------
(* Direct lookups, counts and the journal (JournalService,                 *)
(* JournalEntryRepository): the same soft-delete flag as the gratitude jar.*)

\* GratitudeJarService.getEntryById
GetEntryById(id) ==
  /\ pager.state # "paging"
  /\ calls' = Answer("getEntryById", NoRef, id,
                     findById(gratitude, id) # NullEntry, 0, {}, gratitude)
  /\ pager' = IdlePager
  /\ UNCHANGED <<now, pets, inventory, nextInvId, dailyQuests, userQuests,
                 reqs, ops, lastOk, credited>>
  /\ UNCHANGED <<gratitude, journal, checkIns, flipFeel, flipFeelResponses>>

\* repo.count({ where: { user_id, is_deleted: false } })
countByUser(table, user_id) ==
  Cardinality({i \in DOMAIN table :
                 table[i].user_id = user_id /\ ~table[i].is_deleted})

\* GratitudeEntryRepository.countByUser
CountByUser(user) ==
  /\ pager.state # "paging"
  /\ calls' = Answer("countByUser", user, NoId, FALSE,
                     countByUser(gratitude, user), {}, gratitude)
  /\ pager' = IdlePager
  /\ UNCHANGED <<now, pets, inventory, nextInvId, dailyQuests, userQuests,
                 reqs, ops, lastOk, credited>>
  /\ UNCHANGED <<gratitude, journal, checkIns, flipFeel, flipFeelResponses>>

JournalEntry(id, user, created, deleted) ==
  [journal_id |-> id, user_id |-> user, created_at |-> created,
   is_deleted |-> deleted]

NullJournal == JournalEntry(NoId, NoRef, Timestamp(NoTime, 0), FALSE)

\* JournalEntryRepository.findById
JournalFindById(table, id) ==
  IF \E i \in DOMAIN table : table[i].journal_id = id /\ ~table[i].is_deleted
  THEN table[CHOOSE i \in DOMAIN table :
               table[i].journal_id = id /\ ~table[i].is_deleted]
  ELSE NullJournal

\* JournalEntryRepository.findByUser: the ids of the entries listed
findByUser(table, user_id) ==
  {table[i].journal_id : i \in {j \in DOMAIN table :
                                  /\ table[j].user_id = user_id
                                  /\ ~table[j].is_deleted}}

\* JournalEntryRepository.countByUser
JournalCountByUser(table, user_id) ==
  Cardinality({i \in DOMAIN table :
                 table[i].user_id = user_id /\ ~table[i].is_deleted})

\* JournalEntryRepository.softDelete
JournalSoftDelete(table, id) ==
  IF JournalFindById(table, id) = NullJournal THEN table
  ELSE [i \in DOMAIN table |->
          IF table[i].journal_id = id
          THEN [table[i] EXCEPT !.is_deleted = TRUE]
          ELSE table[i]]

\* JournalService.softDeleteEntry
SoftDeleteJournal(id) ==
  /\ pager.state # "paging"
  /\ ops < MaxCalls
  /\ ops' = ops + 1
  /\ journal' = JournalSoftDelete(journal, id)
  /\ pager' = IdlePager
  /\ calls' = Answer("softDeleteJournal", NoRef, id,
                     JournalFindById(journal, id) # NullJournal, 0, {},
                     journal)
  /\ UNCHANGED <<now, pets, inventory, nextInvId, dailyQuests, userQuests,
                 reqs, lastOk, credited>>
  /\ UNCHANGED <<gratitude, checkIns, flipFeel, flipFeelResponses>>

\* JournalService.getEntryById
GetJournalById(id) ==
  /\ pager.state # "paging"
  /\ calls' = Answer("getJournalById", NoRef, id,
                     JournalFindById(journal, id) # NullJournal, 0, {},
                     journal)
  /\ pager' = IdlePager
  /\ UNCHANGED <<now, pets, inventory, nextInvId, dailyQuests, userQuests,
                 reqs, ops, lastOk, credited>>
  /\ UNCHANGED <<gratitude, journal, checkIns, flipFeel, flipFeelResponses>>

\* the owner's journal: its entries and their number
ListJournal(user) ==
  /\ pager.state # "paging"
  /\ calls' = Answer("listJournal", user, NoId, FALSE,
                     JournalCountByUser(journal, user),
                     findByUser(journal, user), journal)
  /\ pager' = IdlePager
  /\ UNCHANGED <<now, pets, inventory, nextInvId, dailyQuests, userQuests,
                 reqs, ops, lastOk, credited>>
  /\ UNCHANGED <<gratitude, journal, checkIns, flipFeel, flipFeelResponses>>

JournalIds == 1..3

JournalTables ==
  { << JournalEntry(1, "u1", Timestamp(EarlierToday, 0), FALSE),
       JournalEntry(2, "u1", Timestamp(EarlierToday + 1, 0), FALSE),
       JournalEntry(3, "u2", Timestamp(EarlierToday + 2, 0), FALSE) >>,
    << JournalEntry(2, "u1", Timestamp(EarlierToday, 0), TRUE),
       JournalEntry(1, "u1", Timestamp(EarlierToday + 1, 0), FALSE) >> }

InitEntries ==
  /\ NoPetRequests
  /\ gratitude \in GratitudeTables
  /\ journal \in JournalTables
  /\ checkIns = <<>>
  /\ flipFeel = <<>>
  /\ flipFeelResponses = <<>>
  /\ calls = [r \in Slots |-> IdleCall]
  /\ pager = IdlePager

NextEntries ==
  \/ \E id \in GratitudeIds : SoftDeleteEntry(id)
  \/ \E id \in GratitudeIds : GetEntryById(id)
  \/ \E user \in Owners : CountByUser(user)
  \/ \E user \in Owners, limit \in Limits : GetFirstPage(user, limit)
  \/ GetNextPage
  \/ \E id \in JournalIds : SoftDeleteJournal(id)
  \/ \E id \in JournalIds : GetJournalById(id)
  \/ \E user \in Owners : ListJournal(user)

SpecEntries == InitEntries /\ [][NextEntries]_vars

\* the stored row with this id, deleted or not
StoredEntry(table, id) == findOneEntry(table, id)

StoredJournal(table, id) ==
  IF \E i \in DOMAIN table : table[i].journal_id = id
  THEN table[CHOOSE i \in DOMAIN table : table[i].journal_id = id]
  ELSE NullJournal

\* a soft delete keeps every row and sets the flag of the one it found
SoftDeleteKeepsRows ==
  LET call == calls[1]
  IN /\ call.op = "softDeleteEntry" /\ call.found
        => /\ Len(gratitude) = Len(call.pre)
           /\ \A i \in DOMAIN gratitude :
                gratitude[i] =
                  IF call.pre[i].gratitude_id = call.id
                  THEN [call.pre[i] EXCEPT !.is_deleted = TRUE]
                  ELSE call.pre[i]
     /\ call.op = "softDeleteJournal" /\ call.found
        => /\ Len(journal) = Len(call.pre)
           /\ \A i \in DOMAIN journal :
                journal[i] =
                  IF call.pre[i].journal_id = call.id
                  THEN [call.pre[i] EXCEPT !.is_deleted = TRUE]
                  ELSE call.pre[i]

\* lists, pages and counts leave the deleted entries out
SoftDeletedNotListed ==
  LET call == calls[1]
  IN /\ \A i \in DOMAIN pager.seen :
          ~StoredEntry(gratitude, pager.seen[i]).is_deleted
     /\ call.op = "countByUser"
        => call.count = Cardinality({e \in EntriesOf(gratitude) :
                                       e.user_id = call.user /\ ~e.is_deleted})
     /\ call.op = "listJournal"
        => /\ \A id \in call.list : ~StoredJournal(journal, id).is_deleted
           /\ call.count = Cardinality(call.list)

---------------------------------------------------------------------------
(* Mood check-in (MoodCheckInService, MoodCheckInRepository).              *)
(* checked_in_at is a timestamptz column defaulting to CURRENT_TIMESTAMP.  *)

MoodCheckIn(id, user, at) ==
  [check_in_id |-> id, user_id |-> user, checked_in_at |-> at]

NullCheckIn == MoodCheckIn(NoId, NoRef, Timestamp(NoTime, 0))

\* new Date(Date.UTC(y, m, d, 0, 0, 0, 0)) of the current day
startOfDayUTC == (now \div MsPerDay) * MsPerDay

\* new Date(Date.UTC(y, m, d, 23, 59, 59, 999)) of the current day
endOfDayUTC == startOfDayUTC + MsPerDay - 1

\* Between(from, to) on a timestamptz column
Between(ts, from, to) ==
  /\ ~Earlier(ts, FromDate(from))
  /\ ~Earlier(FromDate(to), ts)

\* MoodCheckInRepository.getCheckInForToday
getCheckInForToday(table, user_id) ==
  LET Where(c) == /\ c.user_id = user_id
                  /\ Between(c.checked_in_at, startOfDayUTC, endOfDayUTC)
  IN IF \E i \in DOMAIN table : Where(table[i])
     THEN table[CHOOSE i \in DOMAIN table : Where(table[i])]
     ELSE NullCheckIn

\* MoodCheckInRepository.createCheckIn: a row with the next id, stamped by
\* the database clock
createCheckIn(table, user_id, us) ==
  Append(table, MoodCheckIn(Len(table) + 1, user_id, Timestamp(now, us)))

CallFree(r) == calls[r].pc \in {"idle", "done"}

\* POST /mood-check-in arrives
StartCreateCheckIn(r, user) ==
  /\ CallFree(r)
  /\ calls' = [calls EXCEPT ![r] =
                 [IdleCall EXCEPT !.op = "createCheckIn", !.user = user,
                                  !.pc = "getCheckInForToday",
                                  !.pre = checkIns]]
  /\ ops' = ops + 1
  /\ UNCHANGED <<now, pets, inventory, nextInvId, dailyQuests, userQuests,
                 reqs, lastOk, credited>>
  /\ UNCHANGED <<gratitude, journal, checkIns, flipFeel, flipFeelResponses,
                 pager>>

\* a check-in is refused when the lookup found one
CheckInError(found) ==
  IF found THEN "CHECKIN_EXISTS" ELSE ""

\* if (await this.getCheckInForToday(user_id)) throw CHECKIN_EXISTS
CreateCheckInGetToday(r) ==
  LET call == calls[r]
      found == getCheckInForToday(checkIns, call.user) # NullCheckIn
      code == CheckInError(found)
  IN /\ call.pc = "getCheckInForToday"
     /\ calls' = [calls EXCEPT ![r] =
                    IF code # ""
                    THEN [call EXCEPT !.found = found, !.pc = "done",
                                      !.code = code]
                    ELSE [call EXCEPT !.found = found,
                                      !.pc = "createCheckIn"]]
     /\ UNCHANGED <<now, pets, inventory, nextInvId, dailyQuests, userQuests,
                    reqs, ops, lastOk, credited>>
     /\ UNCHANGED <<gratitude, journal, checkIns, flipFeel, flipFeelResponses,
                    pager>>

\* return await this.moodCheckInRepo.createCheckIn(...)
CreateCheckInInsert(r, us) ==
  LET call == calls[r]
  IN /\ call.pc = "createCheckIn"
     /\ checkIns' = createCheckIn(checkIns, call.user, us)
     /\ calls' = [calls EXCEPT ![r] = [call EXCEPT !.pc = "done",
                                                    !.code = "OK"]]
     /\ UNCHANGED <<now, pets, inventory, nextInvId, dailyQuests, userQuests,
                    reqs, ops, lastOk, credited>>
     /\ UNCHANGED <<gratitude, journal, flipFeel, flipFeelResponses, pager>>

CreateCheckInStep(r) ==
  \/ CreateCheckInGetToday(r)
  \/ \E us \in SubMs : CreateCheckInInsert(r, us)

\* the check-ins of the initial states: none, one of u1 yesterday, one of u1
\* earlier today
CheckInTables ==
  { <<>>,
    << MoodCheckIn(1, "u1", Timestamp(Yesterday, 0)) >>,
    << MoodCheckIn(1, "u1", Timestamp(Yesterday, 0)),
       MoodCheckIn(2, "u1", Timestamp(EarlierToday, 400)) >> }

InitMood ==
  /\ NoPetRequests
  /\ gratitude = <<>>
  /\ journal = <<>>
  /\ checkIns \in CheckInTables
  /\ flipFeel = <<>>
  /\ flipFeelResponses = <<>>
  /\ calls = [r \in Slots |-> IdleCall]
  /\ pager = IdlePager

AllCallsFree == \A r \in Slots : CallFree(r)

\* requests served one after another
NextMood ==
  \/ AllCallsFree /\ ops < MaxOps
     /\ \E user \in Owners : StartCreateCheckIn(1, user)
  \/ CreateCheckInStep(1)
  \/ AllCallsFree /\ Tick

SpecMood == InitMood /\ [][NextMood]_vars

\* requests in flight together
NextMoodConc ==
  \/ ops < MaxConcOps
     /\ \E r \in Slots, user \in Owners : StartCreateCheckIn(r, user)
  \/ \E r \in Slots : CreateCheckInStep(r)
  \/ AllCallsFree /\ Tick

SpecMoodConc == InitMood /\ [][NextMoodConc]_vars

\* the UTC day of a stored timestamp
DayOf(ts) == ts.ms \div MsPerDay

CheckedInOn(table, user, day) ==
  {i \in DOMAIN table :
     table[i].user_id = user /\ DayOf(table[i].checked_in_at) = day}

\* C25: a user has at most one mood check-in per UTC day, whatever
\* createCheckIn calls were made, one after another or together; a
\* createCheckIn of a user who already checked in today fails with
\* CHECKIN_EXISTS and creates no row.
OneCheckInPerDay ==
  /\ \A i, j \in DOMAIN checkIns :
       /\ checkIns[i].user_id = checkIns[j].user_id
       /\ DayOf(checkIns[i].checked_in_at) = DayOf(checkIns[j].checked_in_at)
       => i = j
  /\ \A r \in Slots :
       LET call == calls[r]
       IN /\ call.op = "createCheckIn"
          /\ call.pc = "done"
          /\ CheckedInOn(call.pre, call.user, DayOf(FromDate(now))) # {}
          => /\ call.code = "CHECKIN_EXISTS"
             /\ CheckedInOn(checkIns, call.user, DayOf(FromDate(now)))
                = CheckedInOn(call.pre, call.user, DayOf(FromDate(now)))

---------------------------------------------------------------------------
(* The food shop *)

\* C26: buyFood(owner, food, q) with q >= 1, for a food of the shop and an
\* owner with a pet, fails with INSUFFICIENT_COINS and changes nothing when
\* pet_coin < food_price * q; otherwise it lowers pet_coin by exactly
\* food_price * q and raises the owner's quantity of that food by exactly q,
\* in the row there was or in a new one, and changes nothing else.
BuyFoodExact ==
  \A r \in Slots :
    LET req == reqs[r]
        before == PetIn(req.pre.pets, req.owner)
        cost == PetFood(req.food).food_price * req.qty
    IN /\ Returned(req, "buyFood")
       /\ req.qty >= 1
       /\ getFoodById(req.food)
       /\ before.pet_id # NoId
       => IF before.pet_coin < cost
          THEN /\ req.code = "INSUFFICIENT_COINS"
               /\ pets = req.pre.pets
               /\ inventory = req.pre.inventory
          ELSE /\ req.code = "OK"
               /\ pets = [req.pre.pets EXCEPT
                            ![before.pet_id].pet_coin = before.pet_coin - cost]
               /\ QuantityIn(inventory, req.owner, req.food)
                  = QuantityIn(req.pre.inventory, req.owner, req.food) + req.qty
               /\ {row \in inventory :
                     row.owner_id # req.owner \/ row.food_id # req.food}
                  = {row \in req.pre.inventory :
                       row.owner_id # req.owner \/ row.food_id # req.food}
               /\ Cardinality({row \in inventory :
                                 /\ row.owner_id = req.owner
                                 /\ row.food_id = req.food}) = 1

\* two units were bought and added to the row the owner had
BoughtTwoUnits ==
  LET req == reqs[1]
  IN /\ Returned(req, "buyFood")
     /\ req.code = "OK"
     /\ req.qty = 2
     /\ QuantityIn(req.pre.inventory, req.owner, req.food) >= 1
     /\ PetIn(pets, req.owner).pet_coin
        = PetIn(req.pre.pets, req.owner).pet_coin - 20

---------------------------------------------------------------------------
(* Flip and feel (FlipFeelService.submitResponses,                         *)
(* FlipFeelRepository.createSessionWithResponses).                         *)

\* the rows of flip_feel_questions and flip_feel_choices
Questions == {"q1", "q2"}
Choices == {"c1", "c2"}

FlipFeel(id, user, started, finished) ==
  [flip_feel_id |-> id, user_id |-> user, started_at |-> started,
   finished_at |-> finished]

FlipFeelResponse(id, session, question, choice) ==
  [response_id |-> id, flip_feel_id |-> session, question_id |-> question,
   choice_id |-> choice]

ResponseInput(question, choice) ==
  [question_id |-> question, choice_id |-> choice]

\* the bodies submitted: [array: whether `responses` is an array, items]
Body(items) == [array |-> TRUE, items |-> items]

Bodies ==
  { [array |-> FALSE, items |-> <<>>],
    Body(<<>>),
    Body(<<ResponseInput("q1", "c1")>>),
    Body(<<ResponseInput("q1", "c2"), ResponseInput("q2", "c1")>>),
    Body(<<ResponseInput("q1", NoRef)>>),
    Body(<<ResponseInput("q1", "c1"), ResponseInput("qx", "c1")>>),
    Body(<<ResponseInput("q2", "cx")>>) }

\* the validation of submitResponses before the transaction
SubmitError(body) ==
  IF ~body.array \/ Len(body.items) = 0 THEN "INVALID_RESPONSES"
  ELSE IF \E i \in DOMAIN body.items :
            \/ body.items[i].question_id = NoRef
            \/ body.items[i].choice_id = NoRef
       THEN "INVALID_RESPONSE_FORMAT"
  ELSE NoRef

\* AppDataSource.transaction of createSessionWithResponses: the session and
\* its responses are committed together, or the transaction is rolled back
\* when a question or choice is not found
createSessionWithResponses(user_id, responses) ==
  LET session == FlipFeel(Len(flipFeel) + 1, user_id, now, now)
      valid == \A i \in DOMAIN responses :
                 /\ responses[i].question_id \in Questions
                 /\ responses[i].choice_id \in Choices
      rows == [i \in DOMAIN responses |->
                 FlipFeelResponse(Len(flipFeelResponses) + i,
                                  session.flip_feel_id,
                                  responses[i].question_id,
                                  responses[i].choice_id)]
  IN IF valid
     THEN [code |-> NoRef, sessions |-> Append(flipFeel, session),
           responses |-> flipFeelResponses \o rows]
     ELSE [code |-> "INVALID_QUESTION_OR_CHOICE", sessions |-> flipFeel,
           responses |-> flipFeelResponses]

\* publishMessage(env.PUBSUB_ACTIVITY_TOPIC, ...): the event is published, or
\* the call rejects
publishMessage == {"published", "rejected"}

\* FlipFeelService.submitResponses
SubmitResponses(user, body, publish) ==
  LET err == SubmitError(body)
      res == createSessionWithResponses(user, body.items)
      code == IF err # NoRef THEN err
              ELSE IF res.code # NoRef THEN res.code
              ELSE IF publish = "rejected" THEN "PUBLISH_REJECTED"
              ELSE "OK"
  IN /\ ops < MaxCalls
     /\ ops' = ops + 1
     /\ flipFeel' = IF err # NoRef THEN flipFeel ELSE res.sessions
     /\ flipFeelResponses' = IF err # NoRef THEN flipFeelResponses
                             ELSE res.responses
     /\ calls' = [calls EXCEPT ![1] =
                    [IdleCall EXCEPT
                       !.op = "submitResponses", !.user = user,
                       !.input = body.items, !.pc = "done", !.code = code,
                       !.pre = [flipFeel |-> flipFeel,
                                flipFeelResponses |-> flipFeelResponses]]]
     /\ UNCHANGED <<now, pets, inventory, nextInvId, dailyQuests, userQuests,
                    reqs, lastOk, credited>>
     /\ UNCHANGED <<gratitude, journal, checkIns, pager>>

InitFlipFeel ==
  /\ NoPetRequests
  /\ NoActivities

NextFlipFeel ==
  \/ \E user \in Owners, body \in Bodies, publish \in publishMessage :
       SubmitResponses(user, body, publish)
  \/ Tick

SpecFlipFeel == InitFlipFeel /\ [][NextFlipFeel]_vars

\* C27: submitResponses is all-or-nothing: when it returns an error (no or
\* malformed responses, an unknown question_id or choice_id, a failure to
\* publish the activity event) no session and no response row is stored; when
\* it succeeds exactly one session, with finished_at set, and one response
\* per submitted (question, choice) pair are stored.
SubmitAllOrNothing ==
  LET call == calls[1]
  IN call.op = "submitResponses" /\ call.pc = "done"
     => IF call.code # "OK"
        THEN /\ flipFeel = call.pre.flipFeel
             /\ flipFeelResponses = call.pre.flipFeelResponses
        ELSE /\ Len(flipFeel) = Len(call.pre.flipFeel) + 1
             /\ SubSeq(flipFeel, 1, Len(call.pre.flipFeel)) = call.pre.flipFeel
             /\ flipFeel[Len(flipFeel)].user_id = call.user
             /\ flipFeel[Len(flipFeel)].finished_at # NoTime
             /\ Len(flipFeelResponses)
                = Len(call.pre.flipFeelResponses) + Len(call.input)
             /\ \A i \in DOMAIN call.input :
                  LET row == flipFeelResponses[
                               Len(call.pre.flipFeelResponses) + i]
                  IN /\ row.flip_feel_id = flipFeel[Len(flipFeel)].flip_feel_id
                     /\ row.question_id = call.input[i].question_id
                     /\ row.choice_id = call.input[i].choice_id

---------------------------------------------------------------------------
(* One wake per sleep *)

\* the request of slot r returns in this step
Returns(r, op, code) ==
  /\ reqs[r].pc # "done"
  /\ Returned(reqs'[r], op)
  /\ reqs'[r].code = code

\* C28: in a sequential run a wakePet succeeds only on a pet that a sleepPet
\* put to sleep since the last successful wakePet: a successful wakePet finds
\* sleep_until set and clears it, only a successful sleepPet sets it again,
\* and wakePet on a pet whose sleep_until is null fails with
\* PET_NOT_SLEEPING and changes nothing.
WakeOncePerSleep ==
  [][/\ \A i \in DOMAIN pets :
          /\ (\E r \in Slots : /\ Returns(r, "wakePet", "OK")
                               /\ reqs'[r].owner = pets[i].owner_id)
             => /\ pets[i].sleep_until # NoTime
                /\ pets'[i].sleep_until = NoTime
          /\ (pets[i].sleep_until = NoTime /\ pets'[i].sleep_until # NoTime)
             => \E r \in Slots : /\ Returns(r, "sleepPet", "OK")
                                 /\ reqs'[r].owner = pets[i].owner_id
     /\ \A r \in Slots :
          LET before == PetIn(reqs'[r].pre.pets, reqs'[r].owner)
          IN /\ reqs[r].pc # "done"
             /\ Returned(reqs'[r], "wakePet")
             /\ before.pet_id # NoId
             /\ before.sleep_until = NoTime
             => /\ reqs'[r].code = "PET_NOT_SLEEPING"
                /\ pets' = reqs'[r].pre.pets]_vars

\* the third request of a run woke, a second time, the pet that was woken
\* (energy 100, cleanliness 0) and then put to sleep at the start of the run
WokenAfterSecondSleep ==
  LET req == reqs[1]
      before == PetIn(req.pre.pets, req.owner)
  IN /\ Returned(req, "wakePet")
     /\ req.code = "OK"
     /\ ops = 3
     /\ before.sleep_until = StartOfRun + MsPerHour
     /\ before.pet_energy = 100
     /\ before.pet_cleanliness = 0

---------------------------------------------------------------------------
(* The food inventory *)

---------------------------------------------------------------------------
(* SpecIsolation: every request is issued with owner u1, next to the pet,  *)
(* the food and the user quest of u2.                                      *)

InitIsolation ==
  /\ InitRequests
  /\ pets \in { <<NewPet(1, "u2")>>,
                <<ClaimPet, NewPet(2, "u2")>> }
  /\ inventory \in { {[inventory_id |-> 1, owner_id |-> "u2",
                       food_id |-> "f1", quantity |-> 2]},
                     {[inventory_id |-> 1, owner_id |-> "u2",
                       food_id |-> "f1", quantity |-> 2],
                      [inventory_id |-> 2, owner_id |-> "u1",
                       food_id |-> "f1", quantity |-> 1]} }
  /\ nextInvId = 3
  /\ dailyQuests = DailyTable
  /\ userQuests \in { << UserQuest(1, "u1", 1, "complete"),
                          UserQuest(2, "u2", 1, "complete"),
                          UserQuest(3, "u2", 3, "pending") >>,
                       << UserQuest(1, "u1", 1, "complete"),
                          UserQuest(2, "u2", 1, "complete"),
                          UserQuest(3, "u2", 3, "pending"),
                          UserQuest(4, "u1", 2, "complete") >> }

CanStartNext == AllFree /\ ops < MaxConcOps

NextIsolation ==
  \/ \E op \in PetOps : CanStartNext /\ StartPetAction(1, op, "u1")
  \/ \E p \in Purchases : CanStartNext /\ StartBuyFood(1, "u1", p[1], p[2])
  \/ \E f \in Foods : CanStartNext /\ StartFeedPet(1, "u1", f)
  \/ \E id \in DOMAIN userQuests : CanStartNext /\ StartClaimQuest(1, "u1", id)
  \/ \E op \in QuestOps : CanStartNext /\ StartQuests(1, op, "u1")
  \/ PetActionStep(1)
  \/ BuyFoodStep(1)
  \/ FeedPetStep(1)
  \/ ClaimQuestStep(1)
  \/ QuestsStep(1)

SpecIsolation == InitIsolation /\ [][NextIsolation]_vars

\* the rows of an owner: the pet, the food inventory, the user quests
RowsOf(owner) ==
  [pets |-> {pets[i] : i \in {j \in DOMAIN pets : pets[j].owner_id = owner}},
   inventory |-> {row \in inventory : row.owner_id = owner},
   userQuests |-> {userQuests[i] :
                     i \in {j \in DOMAIN userQuests :
                              userQuests[j].owner_id = owner}}]

\* C30: no pet, food or quest operation issued with owner u1 (the pet
\* actions, buyFood, feedPet, getUserQuestsForTheDay, getQuestStats,
\* claimQuest with any user_quest_id, that of u2's quest included) changes
\* the pet, the inventory or a user quest of the other owner u2.
UsersIsolated ==
  [][RowsOf("u2")' = RowsOf("u2")]_vars

\* u1 asked to claim the complete quest of u2 and was refused
ForeignQuestRefused ==
  /\ Returned(reqs[1], "claimQuest")
  /\ reqs[1].owner = "u1"
  /\ userQuests[reqs[1].uq].owner_id = "u2"
  /\ userQuests[reqs[1].uq].status = "complete"
  /\ reqs[1].code = "QUEST_NOT_OWNED"

=============================================================================
